---- MODULE Spec2Model ----
(***************************************************************************)
(* Model of holland's configuration check DSL, validators and schema use:  *)
(*   holland/core/config/checks.py      (tokenizer, parser, Check)         *)
(*   holland/core/config/validation.py  (the built-in validators)          *)
(*   holland/core/backup/util.py        (validate_config)                  *)
(*   holland/cli/cmd/builtin/cmd_purge.py  (the purge command)             *)
(* Configspec.merge / validate follow their description, their module not  *)
(* being among the sources.                                                *)
(*                                                                         *)
(* Text is a sequence of one-character strings.  A Python value is a       *)
(* tagged record (PyVal); the outcome of a call is Ok(value) or            *)
(* Raise(exception class, message kind, offending value).                  *)
(***************************************************************************)
EXTENDS Integers, Sequences, FiniteSets, TLC

VARIABLES
    pc,         \* which step of the run the program is at
    decl,       \* the Check declaration a validator was built from
    value,      \* the raw configuration value handed to the validator
    res,        \* outcome of the first call
    res2,       \* outcome of the follow-up call (second pass / round trip)
    check,      \* the check string handed to the tokenizer / parser
    pos,        \* Scanner.scan: offset i of the scan loop
    toks,       \* Scanner.scan: the result list built so far
    scanMatch,  \* Scanner.match: the match object the scanner holds
    run,        \* which call of tokenize is in progress (1 or 2)
    schema,     \* the Configspec being composed (section / option tree)
    frags,      \* the schema fragments that plugins and hooks contribute
    config,     \* the loaded configuration being validated
    raw,        \* the configuration as it was loaded, before any validation
    hooks,      \* validate_config: the hooks its loop has yet to visit
    names,      \* Purge.execute: the backups its loop has yet to visit
    log,        \* the calls made so far, in order
    argv        \* the command line of the purge command

vars ==
    <<pc, decl, value, res, res2, check, pos, toks, scanMatch, run,
      schema, frags, config, raw, hooks, names, log, argv>>

\* the state of the validator, parser and tokenizer runs (all but pc, res, res2)
checkVars == <<decl, value, check, pos, toks, scanMatch, run>>

\* the state of the schema, configuration and command runs
schemaVars == <<schema, frags, config, raw, hooks, names, log, argv>>

\* no schema, configuration or command is part of the run
NoSchemaRun ==
    /\ schema = <<>>
    /\ frags = <<>>
    /\ config = <<>>
    /\ raw = <<>>
    /\ hooks = <<>>
    /\ names = <<>>
    /\ log = <<>>
    /\ argv = <<>>

(***************************************************************************)
(* Python values and call outcomes                                         *)
(***************************************************************************)
\* every value carries the same fields: the type t, the number n (int, bool as 1 / 0,
\* float numerator), the decimal exponent k of a float, the text s of a string and the
\* items of a list or tuple
PyVal(t, n, k, s, items) == [t |-> t, n |-> n, k |-> k, s |-> s, items |-> items]

PyNone == PyVal("none", 0, 0, <<>>, <<>>)

PyInt(n) == PyVal("int", n, 0, <<>>, <<>>)

PyBool(b) == PyVal("bool", IF b THEN 1 ELSE 0, 0, <<>>, <<>>)

PyStr(s) == PyVal("str", 0, 0, s, <<>>)

PyList(items) == PyVal("list", 0, 0, <<>>, items)

PyTuple(items) == PyVal("tuple", 0, 0, <<>>, items)

\* a float holds the decimal num / 10^k, normalised (k = 0 or num not a multiple of 10)
PyFloat(num, k) == PyVal("float", num, k, <<>>, <<>>)

Ok(v) == [k |-> "ok", v |-> v, exc |-> "", msg |-> ""]

Raise(exc, msg, v) == [k |-> "raise", v |-> v, exc |-> exc, msg |-> msg]

IsOk(r) == r.k = "ok"

\* isinstance(value, basestring)
IsString(x) == x.t = "str"

\* isinstance(value, int): bool is a subclass of int
IsInt(x) == x.t \in {"int", "bool"}

\* the integer a Python int or bool stands for
IntOf(x) == x.n

\* truth value of a Python object, as `if obj` / `a and b` test it
Truthy(x) ==
    CASE x.t = "none" -> FALSE
      [] x.t \in {"bool", "int", "float"} -> x.n # 0
      [] x.t = "str" -> Len(x.s) > 0
      [] x.t \in {"list", "tuple"} -> Len(x.items) > 0
      [] OTHER -> TRUE

(***************************************************************************)
(* Characters                                                              *)
(***************************************************************************)
Digits == {"0", "1", "2", "3", "4", "5", "6", "7", "8", "9"}

LowerLetters ==
    {"a", "b", "c", "d", "e", "f", "g", "h", "i", "j", "k", "l", "m",
     "n", "o", "p", "q", "r", "s", "t", "u", "v", "w", "x", "y", "z"}

UpperLetters == {"F", "I", "N", "O"}

Letters == LowerLetters \cup UpperLetters

\* \s of the re module, as far as the model's alphabet goes
Whitespace == {" "}

DQ == "\""

SQ == "'"

BS == "\\"

\* str.lower() on one character
LowerChar(c) ==
    CASE c = "F" -> "f"
      [] c = "I" -> "i"
      [] c = "N" -> "n"
      [] c = "O" -> "o"
      [] OTHER -> c

\* str.lower()
Lower(s) == [i \in 1..Len(s) |-> LowerChar(s[i])]

\* value of a digit character in int(text, base); 99 for a character that is no digit
DigitVal(c) ==
    CASE c = "0" -> 0 [] c = "1" -> 1 [] c = "2" -> 2 [] c = "3" -> 3
      [] c = "4" -> 4 [] c = "5" -> 5 [] c = "6" -> 6 [] c = "7" -> 7
      [] c = "8" -> 8 [] c = "9" -> 9
      [] c \in {"a", "A"} -> 10 [] c \in {"b", "B"} -> 11
      [] c \in {"c", "C"} -> 12 [] c \in {"d", "D"} -> 13
      [] c \in {"e", "E"} -> 14 [] c \in {"f", "F"} -> 15
      [] OTHER -> 99

DigitChar(d) ==
    CASE d = 0 -> "0" [] d = 1 -> "1" [] d = 2 -> "2" [] d = 3 -> "3"
      [] d = 4 -> "4" [] d = 5 -> "5" [] d = 6 -> "6" [] d = 7 -> "7"
      [] d = 8 -> "8" [] OTHER -> "9"

Drop(s, n) == SubSeq(s, n + 1, Len(s))

Take(s, n) == SubSeq(s, 1, n)

\* str.strip(): leading and trailing whitespace removed
RECURSIVE LStrip(_)
LStrip(s) == IF Len(s) > 0 /\ s[1] \in Whitespace THEN LStrip(Tail(s)) ELSE s

RECURSIVE RStrip(_)
RStrip(s) ==
    IF Len(s) > 0 /\ s[Len(s)] \in Whitespace THEN RStrip(Take(s, Len(s) - 1)) ELSE s

Strip(s) == RStrip(LStrip(s))

(***************************************************************************)
(* holland.core.config.util: unquote and the `missing` sentinel.           *)
(* Their module is not among the sources; they follow the description      *)
(* "unquotes / unescapes" and "an explicit absent sentinel distinct from   *)
(* the null value".                                                        *)
(***************************************************************************)
missing == PyVal("missing", 0, 0, <<>>, <<>>)

\* a backslash followed by a quote or a backslash stands for that character
RECURSIVE Unescape(_)
Unescape(s) ==
    IF Len(s) = 0 THEN s
    ELSE IF s[1] = BS /\ Len(s) > 1 /\ s[2] \in {DQ, SQ, BS}
         THEN <<s[2]>> \o Unescape(Drop(s, 2))
         ELSE <<s[1]>> \o Unescape(Tail(s))

\* one layer of matching outer quotes is removed, then escapes are resolved
unquote(s) ==
    IF Len(s) > 1 /\ s[1] \in {DQ, SQ} /\ s[Len(s)] = s[1]
    THEN Unescape(SubSeq(s, 2, Len(s) - 1))
    ELSE Unescape(s)

(***************************************************************************)
(* kwargs: a dict, kept as a list of <<key, value>> pairs in insertion     *)
(* order with unique keys                                                  *)
(***************************************************************************)
DictHas(d, key) == \E i \in 1..Len(d) : d[i][1] = key

\* dict.get(key): None when the key is absent
DictGet(d, key) ==
    IF DictHas(d, key)
    THEN d[CHOOSE i \in 1..Len(d) : d[i][1] = key][2]
    ELSE PyNone

\* dict.get(key, default)
DictGetOr(d, key, default) == IF DictHas(d, key) THEN DictGet(d, key) ELSE default

\* d[key] = val
DictSet(d, key, val) ==
    IF DictHas(d, key)
    THEN [i \in 1..Len(d) |-> IF d[i][1] = key THEN <<key, val>> ELSE d[i]]
    ELSE Append(d, <<key, val>>)

\* the dict without key (the mapping dict.pop leaves behind)
RECURSIVE DictRemove(_, _)
DictRemove(d, key) ==
    IF Len(d) = 0 THEN d
    ELSE IF d[1][1] = key THEN DictRemove(Tail(d), key)
         ELSE <<d[1]>> \o DictRemove(Tail(d), key)

(***************************************************************************)
(* Python built-ins the validators call                                    *)
(***************************************************************************)
\* words of the sources, as text
S_min == <<"m", "i", "n">>

S_max == <<"m", "a", "x">>

S_base == <<"b", "a", "s", "e">>

S_default == <<"d", "e", "f", "a", "u", "l", "t">>

S_aliasof == <<"a", "l", "i", "a", "s", "o", "f">>

S_list == <<"l", "i", "s", "t">>

S_None == <<"N", "o", "n", "e">>

S_yes == <<"y", "e", "s">>

S_no == <<"n", "o">>

S_on == <<"o", "n">>

S_off == <<"o", "f", "f">>

S_true == <<"t", "r", "u", "e">>

S_false == <<"f", "a", "l", "s", "e">>

S_True == <<"T", "r", "u", "e">>

S_False == <<"F", "a", "l", "s", "e">>

S_debug == <<"d", "e", "b", "u", "g">>

S_info == <<"i", "n", "f", "o">>

S_warning == <<"w", "a", "r", "n", "i", "n", "g">>

S_error == <<"e", "r", "r", "o", "r">>

S_fatal == <<"f", "a", "t", "a", "l">>

RECURSIVE NatToStr(_)
NatToStr(n) ==
    IF n < 10 THEN <<DigitChar(n)>> ELSE NatToStr(n \div 10) \o <<DigitChar(n % 10)>>

\* str(n) for an int
IntToStr(n) == IF n < 0 THEN <<"-">> \o NatToStr(0 - n) ELSE NatToStr(n)

\* str(value), for the values BaseValidator.format is handed
PyStrOf(x) ==
    CASE x.t = "int" -> IntToStr(x.n)
      [] x.t = "bool" -> IF x.n = 1 THEN S_True ELSE S_False
      [] x.t = "str" -> x.s
      [] x.t = "none" -> S_None

RECURSIVE DigitsValue(_, _, _)
DigitsValue(s, base, acc) ==
    IF Len(s) = 0 THEN acc
    ELSE DigitsValue(Tail(s), base, acc * base + DigitVal(s[1]))

\* int(text, base) for text without whitespace or a radix prefix: an optional sign,
\* then one or more digits of the base; ValueError otherwise
PyIntParse(s, base) ==
    LET signed == Len(s) > 0 /\ s[1] \in {"-", "+"}
        body == IF signed THEN Tail(s) ELSE s
        good == /\ base >= 2
                /\ base <= 36
                /\ Len(body) > 0
                /\ \A i \in 1..Len(body) : DigitVal(body[i]) < base
        n == DigitsValue(body, base, 0)
    IN  IF good
        THEN Ok(PyInt(IF signed /\ s[1] = "-" THEN 0 - n ELSE n))
        ELSE Raise("ValueError", "invalid literal for int()", PyStr(s))

\* int(value, base): only text is converted with an explicit base
PyIntOf(x, base) ==
    IF IsString(x) THEN PyIntParse(x.s, IntOf(base))
    ELSE Raise("TypeError", "int() can't convert non-string with explicit base", x)

(***************************************************************************)
(* validation.py: BaseValidator                                            *)
(***************************************************************************)
BaseValidator_normalize(val) == IF IsString(val) THEN PyStr(unquote(val.s)) ELSE val

BaseValidator_convert(val) == Ok(val)

BaseValidator_format(val) == IF val.t = "none" THEN Ok(val) ELSE Ok(PyStr(PyStrOf(val)))

(***************************************************************************)
(* validation.py: BoolValidator                                            *)
(***************************************************************************)
valid_bools ==
    <<  <<PyStr(S_yes), PyBool(TRUE)>>,
        <<PyStr(S_on), PyBool(TRUE)>>,
        <<PyStr(S_true), PyBool(TRUE)>>,
        <<PyStr(<<"1">>), PyBool(TRUE)>>,
        <<PyStr(S_no), PyBool(FALSE)>>,
        <<PyStr(S_off), PyBool(FALSE)>>,
        <<PyStr(S_false), PyBool(FALSE)>>,
        <<PyStr(<<"0">>), PyBool(FALSE)>>  >>

BoolValidator_convert(val) ==
    IF val.t = "bool" THEN Ok(val)
    ELSE IF ~IsString(val)
         THEN Raise("AttributeError", "object has no attribute 'lower'", val)
         ELSE IF DictHas(valid_bools, PyStr(Lower(val.s)))
              THEN Ok(DictGet(valid_bools, PyStr(Lower(val.s))))
              ELSE Raise("KeyError", "valid_bools", val)

\* value and 'yes' or 'no'
BoolValidator_format(val) == Ok(PyStr(IF Truthy(val) THEN S_yes ELSE S_no))

(***************************************************************************)
(* validation.py: IntValidator                                             *)
(***************************************************************************)
\* the `max` test of convert: `self.kwargs.get('max') and value > self.kwargs.get('max')`
IntValidator_exceeds_max(kwargs, n) ==
    Truthy(DictGet(kwargs, PyStr(S_max))) /\ n > IntOf(DictGet(kwargs, PyStr(S_max)))

\* the `min` test: `self.kwargs.get('min') is not None and value < self.kwargs.get('min')`
IntValidator_below_min(kwargs, n) ==
    DictGet(kwargs, PyStr(S_min)) # PyNone /\ n < IntOf(DictGet(kwargs, PyStr(S_min)))

IntValidator_convert(kwargs, val) ==
    IF val.t = "none" THEN Ok(val)
    ELSE LET parsed == IF IsInt(val) THEN Ok(val)
                       ELSE PyIntOf(val, DictGetOr(kwargs, PyStr(S_base), PyInt(10)))
         IN  IF ~IsOk(parsed)
             THEN IF parsed.exc = "ValueError"
                  THEN Raise("ValidationError", "Invalid format for integer", val)
                  ELSE parsed
             ELSE IF IntValidator_below_min(kwargs, IntOf(parsed.v))
                  THEN Raise("ValidationError", "Integer value must be > min", parsed.v)
                  ELSE IF IntValidator_exceeds_max(kwargs, IntOf(parsed.v))
                       THEN Raise("ValidationError", "Integer value exceeds maximum",
                                  parsed.v)
                       ELSE parsed

(***************************************************************************)
(* validation.py: OptionValidator                                          *)
(***************************************************************************)
\* `value in self.args`
InArgs(args, val) == \E i \in 1..Len(args) : args[i] = val

\* ','.join(self.args), for args that are all text
RECURSIVE join_args(_)
join_args(args) ==
    IF Len(args) = 0 THEN <<>>
    ELSE IF Len(args) = 1 THEN args[1].s
    ELSE args[1].s \o <<",">> \o join_args(Tail(args))

\* "invalid option '%s' - choose from: %s" % (value, ','.join(self.args))
OptionValidator_message(args, val) ==
    <<"i", "n", "v", "a", "l", "i", "d", " ", "o", "p", "t", "i", "o", "n", " ", "'">>
    \o PyStrOf(val)
    \o <<"'", " ", "-", " ", "c", "h", "o", "o", "s", "e", " ", "f", "r", "o", "m", ":", " ">>
    \o join_args(args)

OptionValidator_convert(args, val) ==
    IF InArgs(args, val) THEN Ok(val)
    ELSE IF \A i \in 1..Len(args) : IsString(args[i])
         THEN Raise("ValidationError", "invalid option - choose from", val)
         ELSE Raise("TypeError", "sequence item: expected string", val)

(***************************************************************************)
(* validation.py: LogLevelValidator                                        *)
(***************************************************************************)
\* logging.DEBUG .. logging.FATAL
LOG_DEBUG == 10

LOG_INFO == 20

LOG_WARNING == 30

LOG_ERROR == 40

LOG_FATAL == 50

levels ==
    <<  <<PyStr(S_debug), PyInt(LOG_DEBUG)>>,
        <<PyStr(S_info), PyInt(LOG_INFO)>>,
        <<PyStr(S_warning), PyInt(LOG_WARNING)>>,
        <<PyStr(S_error), PyInt(LOG_ERROR)>>,
        <<PyStr(S_fatal), PyInt(LOG_FATAL)>>,
        <<PyInt(LOG_DEBUG), PyStr(S_debug)>>,
        <<PyInt(LOG_INFO), PyStr(S_info)>>,
        <<PyInt(LOG_WARNING), PyStr(S_warning)>>,
        <<PyInt(LOG_ERROR), PyStr(S_error)>>,
        <<PyInt(LOG_FATAL), PyStr(S_fatal)>>  >>

\* a dict key as it hashes and compares: True is 1, False is 0
AsKey(val) == IF val.t = "bool" THEN PyInt(IntOf(val)) ELSE val

LogLevelValidator_convert(val) ==
    IF IsInt(val) THEN Ok(val)
    ELSE IF ~IsString(val)
         THEN Raise("AttributeError", "object has no attribute 'lower'", val)
         ELSE IF DictHas(levels, PyStr(Lower(val.s)))
              THEN Ok(DictGet(levels, PyStr(Lower(val.s))))
              ELSE Raise("ValidationError", "Invalid log level", val)

LogLevelValidator_format(val) ==
    IF ~DictHas(levels, AsKey(val))
    THEN Raise("ValidationError", "Unknown logging level", val)
    ELSE IF IsString(DictGet(levels, AsKey(val)))
         THEN Ok(PyStr(Lower(DictGet(levels, AsKey(val)).s)))
         ELSE Raise("AttributeError", "'int' object has no attribute 'lower'", val)

(***************************************************************************)
(* validation.py: FloatValidator                                           *)
(***************************************************************************)
RECURSIVE Pow10(_)
Pow10(k) == IF k = 0 THEN 1 ELSE 10 * Pow10(k - 1)

RECURSIVE StripZeros(_)
StripZeros(s) ==
    IF Len(s) > 0 /\ s[Len(s)] = "0" THEN StripZeros(Take(s, Len(s) - 1)) ELSE s

\* the offset of the first "." of s, or 0
DotAt(s) ==
    IF \E i \in 1..Len(s) : s[i] = "."
    THEN CHOOSE i \in 1..Len(s) : s[i] = "." /\ \A j \in 1..(i - 1) : s[j] # "."
    ELSE 0

\* float(text) for text without whitespace or exponent: sign, digits, optional point
PyFloatParse(s) ==
    LET signed == Len(s) > 0 /\ s[1] \in {"-", "+"}
        body == IF signed THEN Tail(s) ELSE s
        dot == DotAt(body)
        ip == IF dot = 0 THEN body ELSE Take(body, dot - 1)
        fp == IF dot = 0 THEN <<>> ELSE StripZeros(Drop(body, dot))
        fpraw == IF dot = 0 THEN <<>> ELSE Drop(body, dot)
        good == /\ Len(ip) + Len(fpraw) > 0
                /\ \A i \in 1..Len(ip) : ip[i] \in Digits
                /\ \A i \in 1..Len(fpraw) : fpraw[i] \in Digits
        n == DigitsValue(ip, 10, 0) * Pow10(Len(fp)) + DigitsValue(fp, 10, 0)
    IN  IF good
        THEN Ok(PyFloat(IF signed /\ s[1] = "-" THEN 0 - n ELSE n, Len(fp)))
        ELSE Raise("ValueError", "could not convert string to float", PyStr(s))

\* float(value)
PyFloatOf(x) ==
    CASE x.t = "float" -> Ok(x)
      [] IsInt(x) -> Ok(PyFloat(IntOf(x), 0))
      [] IsString(x) -> PyFloatParse(x.s)
      [] OTHER -> Raise("TypeError", "float() argument must be a string or a number", x)

FloatValidator_convert(val) ==
    LET r == PyFloatOf(val)
    IN  IF ~IsOk(r) /\ r.exc = "ValueError"
        THEN Raise("ValidationError", "Invalid format for float", val)
        ELSE r

(***************************************************************************)
(* The csv module, dialect 'excel': delimiter ',', quotechar '"',          *)
(* doublequote, QUOTE_MINIMAL, not strict.  The model's text holds no line *)
(* break, so a non-empty text is one line and the empty text is no line.   *)
(***************************************************************************)
\* csv.reader(..., skipinitialspace=True) on one line: the state machine of _csv
RECURSIVE csv_reader_row(_, _, _, _, _)
csv_reader_row(line, i, state, field, fields) ==
    IF i > Len(line)
    THEN IF state = "START_RECORD" THEN fields ELSE Append(fields, field)
    ELSE LET c == line[i]
         IN  CASE state \in {"START_RECORD", "START_FIELD"} ->
                    IF c = DQ
                    THEN csv_reader_row(line, i + 1, "IN_QUOTED_FIELD", field, fields)
                    ELSE IF c = " "
                    THEN csv_reader_row(line, i + 1, "START_FIELD", field, fields)
                    ELSE IF c = ","
                    THEN csv_reader_row(line, i + 1, "START_FIELD", <<>>,
                                        Append(fields, field))
                    ELSE csv_reader_row(line, i + 1, "IN_FIELD", Append(field, c), fields)
               [] state = "IN_FIELD" ->
                    IF c = ","
                    THEN csv_reader_row(line, i + 1, "START_FIELD", <<>>,
                                        Append(fields, field))
                    ELSE csv_reader_row(line, i + 1, "IN_FIELD", Append(field, c), fields)
               [] state = "IN_QUOTED_FIELD" ->
                    IF c = DQ
                    THEN csv_reader_row(line, i + 1, "QUOTE_IN_QUOTED_FIELD", field, fields)
                    ELSE csv_reader_row(line, i + 1, "IN_QUOTED_FIELD",
                                        Append(field, c), fields)
               [] state = "QUOTE_IN_QUOTED_FIELD" ->
                    IF c = DQ
                    THEN csv_reader_row(line, i + 1, "IN_QUOTED_FIELD",
                                        Append(field, c), fields)
                    ELSE IF c = ","
                    THEN csv_reader_row(line, i + 1, "START_FIELD", <<>>,
                                        Append(fields, field))
                    ELSE csv_reader_row(line, i + 1, "IN_FIELD", Append(field, c), fields)

\* every cell of every row of csv.reader over the text
csv_reader(text) ==
    IF Len(text) = 0 THEN <<>> ELSE csv_reader_row(text, 1, "START_RECORD", <<>>, <<>>)

\* csv.writer: one field as written; quote_empty is set for the only field of a row
RECURSIVE csv_double_quotes(_)
csv_double_quotes(f) ==
    IF Len(f) = 0 THEN f
    ELSE (IF f[1] = DQ THEN <<DQ, DQ>> ELSE <<f[1]>>) \o csv_double_quotes(Tail(f))

csv_writer_field(f, quote_empty) ==
    LET quoted == \/ \E i \in 1..Len(f) : f[i] \in {",", DQ}
                  \/ (Len(f) = 0 /\ quote_empty)
    IN  IF quoted THEN <<DQ>> \o csv_double_quotes(f) \o <<DQ>> ELSE f

\* csv.writer(...).writerow(cells), without the line terminator
RECURSIVE csv_writerow(_, _)
csv_writerow(cells, n) ==
    IF Len(cells) = 0 THEN <<>>
    ELSE csv_writer_field(cells[1], n = 1)
         \o (IF Len(cells) > 1 THEN <<",">> ELSE <<>>)
         \o csv_writerow(Tail(cells), n)

(***************************************************************************)
(* validation.py: ListValidator, TupleValidator                            *)
(***************************************************************************)
ListValidator_normalize(val) == val

\* the cells kept by the list comprehension of convert
RECURSIVE unquote_cells(_)
unquote_cells(cells) ==
    IF Len(cells) = 0 THEN <<>>
    ELSE (IF Len(unquote(cells[1])) > 0 THEN <<PyStr(unquote(cells[1]))>> ELSE <<>>)
         \o unquote_cells(Tail(cells))

ListValidator_convert(val) ==
    CASE val.t = "list" -> Ok(val)
      [] val.t = "str" -> Ok(PyList(unquote_cells(csv_reader(val.s))))
      [] val.t = "none" -> Ok(PyList(<<>>))
      [] OTHER -> Raise("TypeError", "initial_value must be unicode or None", val)

ListValidator_format(val) ==
    IF val.t \notin {"list", "tuple"}
    THEN Raise("TypeError", "object is not iterable", val)
    ELSE IF \E i \in 1..Len(val.items) : ~IsString(val.items[i])
         THEN Raise("AttributeError", "object has no attribute 'encode'", val)
         ELSE Ok(PyStr(Strip(csv_writerow([i \in 1..Len(val.items) |-> val.items[i].s],
                                          Len(val.items)))))

TupleValidator_convert(val) ==
    LET r == ListValidator_convert(val)
    IN  IF IsOk(r) THEN Ok(PyTuple(r.v.items)) ELSE r

(***************************************************************************)
(* validation.py: CmdlineValidator (shlex.split in POSIX mode; the model's *)
(* text holds no backslash here)                                           *)
(***************************************************************************)
\* shlex.split: state is " " (between words), "a" (in a word) or the open quote
RECURSIVE shlex_split(_, _, _, _, _, _)
shlex_split(s, i, state, token, quoted, out) ==
    IF i > Len(s)
    THEN IF state \in {DQ, SQ}
         THEN Raise("ValueError", "No closing quotation", PyStr(s))
         ELSE Ok(PyList(IF Len(token) > 0 \/ quoted
                        THEN Append(out, PyStr(token)) ELSE out))
    ELSE LET c == s[i]
         IN  CASE state \in {DQ, SQ} ->
                    IF c = state
                    THEN shlex_split(s, i + 1, "a", token, TRUE, out)
                    ELSE shlex_split(s, i + 1, state, Append(token, c), TRUE, out)
               [] OTHER ->
                    IF c \in Whitespace
                    THEN IF Len(token) > 0 \/ quoted
                         THEN shlex_split(s, i + 1, " ", <<>>, FALSE,
                                          Append(out, PyStr(token)))
                         ELSE shlex_split(s, i + 1, " ", <<>>, FALSE, out)
                    ELSE IF c \in {DQ, SQ}
                    THEN shlex_split(s, i + 1, c, token, quoted, out)
                    ELSE shlex_split(s, i + 1, "a", Append(token, c), quoted, out)

CmdlineValidator_convert(val) ==
    IF ~IsString(val)
    THEN Raise("AttributeError", "object has no attribute 'encode'", val)
    ELSE shlex_split(val.s, 1, " ", <<>>, FALSE, <<>>)

(***************************************************************************)
(* A validator object: its class and the args / kwargs of its declaration  *)
(* (BaseValidator.__init__), and the calls dispatched on its class         *)
(***************************************************************************)
Validator(cls, args, kwargs) == [cls |-> cls, args |-> args, kwargs |-> kwargs]

\* the classes of default_validators
default_validators ==
    {"BoolValidator", "IntValidator", "FloatValidator", "StringValidator",
     "OptionValidator", "ListValidator", "TupleValidator", "CmdlineValidator",
     "LogLevelValidator"}

normalize(vd, val) ==
    IF vd.cls \in {"ListValidator", "TupleValidator"}
    THEN ListValidator_normalize(val)
    ELSE BaseValidator_normalize(val)

convert(vd, val) ==
    CASE vd.cls = "BoolValidator" -> BoolValidator_convert(val)
      [] vd.cls = "IntValidator" -> IntValidator_convert(vd.kwargs, val)
      [] vd.cls = "FloatValidator" -> FloatValidator_convert(val)
      [] vd.cls = "OptionValidator" -> OptionValidator_convert(vd.args, val)
      [] vd.cls = "ListValidator" -> ListValidator_convert(val)
      [] vd.cls = "TupleValidator" -> TupleValidator_convert(val)
      [] vd.cls = "CmdlineValidator" -> CmdlineValidator_convert(val)
      [] vd.cls = "LogLevelValidator" -> LogLevelValidator_convert(val)
      [] OTHER -> BaseValidator_convert(val)

\* BaseValidator.validate: convert(normalize(value))
validate(vd, val) == convert(vd, normalize(vd, val))

\* format, for the classes whose format works on text the model can hold
format(vd, val) ==
    CASE vd.cls = "BoolValidator" -> BoolValidator_format(val)
      [] vd.cls \in {"ListValidator", "TupleValidator"} -> ListValidator_format(val)
      [] vd.cls = "LogLevelValidator" -> LogLevelValidator_format(val)
      [] OTHER -> BaseValidator_format(val)

\* convert(normalize(format(value))), or the error format raised
roundtrip(vd, val) ==
    LET f == format(vd, val)
    IN  IF IsOk(f) THEN validate(vd, f.v) ELSE f

(***************************************************************************)
(* Bounds of the model and the inputs drawn within them                    *)
(***************************************************************************)
\* declared min / max range over 0..MaxBound
MaxBound == 2

\* longest raw text handed to the integer and float validators
MaxNumLen == 2

\* longest raw text handed to the list, tuple and cmdline validators
MaxRowLen == 4

\* longest raw text handed to the string and option validators
MaxStrLen == 3

StringsUpTo(alphabet, n) == UNION {[1..k -> alphabet] : k \in 0..n}

TextValues(alphabet, n) == {PyStr(s) : s \in StringsUpTo(alphabet, n)}

\* the kwargs of integer(min=.., max=.., base=..); -1 stands for a keyword not given
IntKwargs(lo, hi, base) ==
    (IF lo >= 0 THEN << <<PyStr(S_min), PyInt(lo)>> >> ELSE <<>>)
    \o (IF hi >= 0 THEN << <<PyStr(S_max), PyInt(hi)>> >> ELSE <<>>)
    \o (IF base >= 0 THEN << <<PyStr(S_base), PyInt(base)>> >> ELSE <<>>)

IntValidators ==
    {Validator("IntValidator", <<>>, IntKwargs(lo, hi, base)) :
        lo \in -1..MaxBound, hi \in -1..MaxBound, base \in {-1, 2, 16}}

OptionValidators ==
    {Validator("OptionValidator", <<PyStr(<<"a">>)>>, <<>>),
     Validator("OptionValidator", <<PyStr(<<"a">>), PyStr(<<"b">>)>>, <<>>),
     Validator("OptionValidator", <<PyInt(1), PyStr(<<"a">>)>>, <<>>)}

Validators ==
    IntValidators \cup OptionValidators
    \cup {Validator(c, <<>>, <<>>) :
            c \in default_validators \ {"IntValidator", "OptionValidator"}}

BoolWords ==
    {S_yes, S_no, S_on, S_off, S_true, S_false, <<"1">>, <<"0">>, <<"O", "N">>,
     <<"N", "O">>, <<"2">>, <<>>, <<DQ, "o", "n", DQ>>}

LevelWords ==
    {S_debug, S_info, S_warning, S_error, S_fatal, <<"I", "N", "F", "O">>,
     <<"i", "n", "f">>, <<>>}

\* a,"b,c",d
ListExample == <<"a", ",", DQ, "b", ",", "c", DQ, ",", "d">>

\* a"b,c": the double quotes open inside a field
ListMidQuote == <<"a", DQ, "b", ",", "c", DQ>>

\* the values handed to a validator: raw text, and values already converted
RawValues(vd) ==
    CASE vd.cls = "BoolValidator" ->
            {PyStr(w) : w \in BoolWords} \cup {PyBool(TRUE), PyBool(FALSE)}
      [] vd.cls = "IntValidator" ->
            TextValues({"0", "1", "2", "a", "-"}, MaxNumLen)
            \cup {PyInt(n) : n \in -1..(MaxBound + 1)} \cup {PyNone}
      [] vd.cls = "FloatValidator" ->
            TextValues({"1", "5", ".", "a"}, MaxNumLen + 1) \cup {PyFloat(15, 1)}
      [] vd.cls \in {"StringValidator", "OptionValidator"} ->
            TextValues({"a", "b", DQ}, MaxStrLen)
      [] vd.cls \in {"ListValidator", "TupleValidator"} ->
            TextValues({"a", ",", DQ, " "}, MaxRowLen)
            \cup {PyList(<<>>), PyList(<<PyStr(<<"a">>), PyStr(<<"b">>)>>)}
            \cup {PyStr(ListExample), PyStr(ListMidQuote)}
      [] vd.cls = "CmdlineValidator" ->
            TextValues({"a", DQ, " "}, MaxRowLen)
      [] vd.cls = "LogLevelValidator" ->
            {PyStr(w) : w \in LevelWords}
            \cup {PyInt(LOG_DEBUG), PyInt(LOG_FATAL), PyInt(LOG_DEBUG + 5), PyInt(0)}

(***************************************************************************)
(* Validation of one option value: the calls made on a validator           *)
(***************************************************************************)
NoResult == [k |-> "none", v |-> PyNone, exc |-> "", msg |-> ""]

NoValidator == Validator("", <<>>, <<>>)

InitValidate ==
    /\ pc = "start"
    /\ decl \in Validators
    /\ value \in RawValues(decl)
    /\ res = NoResult
    /\ res2 = NoResult
    /\ check = <<>>
    /\ pos = 0
    /\ toks = <<>>
    /\ scanMatch = <<-1, -1>>
    /\ run = 0
    /\ NoSchemaRun

\* validator.convert(value)
Convert ==
    /\ pc = "start"
    /\ res' = convert(decl, value)
    /\ pc' = "converted"
    /\ UNCHANGED <<decl, value, res2, check, pos, toks, scanMatch, run>>
    /\ UNCHANGED schemaVars

\* validator.validate(value): the first, lenient pass of validate_config
Validate ==
    /\ pc = "start"
    /\ res' = validate(decl, value)
    /\ pc' = "validated"
    /\ UNCHANGED <<decl, value, res2, check, pos, toks, scanMatch, run>>
    /\ UNCHANGED schemaVars

\* validator.validate on the value the first pass wrote back: the second, strict
\* pass of validate_config
Revalidate ==
    /\ pc = "validated"
    /\ IsOk(res)
    /\ res2' = validate(decl, res.v)
    /\ pc' = "revalidated"
    /\ UNCHANGED <<decl, value, res, check, pos, toks, scanMatch, run>>
    /\ UNCHANGED schemaVars

\* validator.format on a value convert returned, and the text validated again
RoundTrip ==
    /\ pc \in {"converted", "validated"}
    /\ IsOk(res)
    /\ decl.cls \notin {"FloatValidator", "CmdlineValidator"}
    /\ res2' = roundtrip(decl, res.v)
    /\ pc' = "roundtrip"
    /\ UNCHANGED <<decl, value, res, check, pos, toks, scanMatch, run>>
    /\ UNCHANGED schemaVars

NextValidate == Convert \/ Validate \/ Revalidate \/ RoundTrip

SpecValidate == InitValidate /\ [][NextValidate]_vars

(***************************************************************************)
(* checks.py: Token, create_token and the rules of CheckParser.scanner     *)
(***************************************************************************)
T_ID == 1

T_STR == 2

T_NUM == 4

T_SYM == 16

Token(text, token_id, val, position) ==
    [text |-> text, token_id |-> token_id, value |-> val, position |-> position]

\* [0-9a-zA-Z_-] and [a-zA-Z0-9_-]
NameChars == Digits \cup Letters \cup {"_", "-"}

\* [a-zA-Z_-]
NameEndChars == Letters \cup {"_", "-"}

SymChars == {"(", ")", "=", ","}

SetMax(S) == CHOOSE x \in S : \A y \in S : y <= x

\* the offset at which the run of characters of `class` that starts at offset i ends
RECURSIVE RunEnd(_, _, _)
RunEnd(s, i, class) ==
    IF i < Len(s) /\ s[i + 1] \in class THEN RunEnd(s, i + 1, class) ELSE i

\* Each rule gives the end offset of its match at offset i, or -1 when it does not
\* match there.  Offsets are Python's: the character at offset i is s[i + 1].

\* name_re = [0-9a-zA-Z_-][a-zA-Z0-9_-]*[a-zA-Z_-]: greedy, so the longest run of name
\* characters of length >= 2 that ends in a letter, "_" or "-"
match_name_re(s, i) ==
    LET ends == {j \in (i + 2)..RunEnd(s, i, NameChars) : s[j] \in NameEndChars}
    IN  IF ends = {} THEN -1 ELSE SetMax(ends)

\* the body of a quoted literal from offset k on: plain characters and backslash
\* pairs up to the closing quote q
RECURSIVE str_body_end(_, _, _)
str_body_end(s, k, q) ==
    IF k >= Len(s) THEN -1
    ELSE IF s[k + 1] = q THEN k + 1
    ELSE IF s[k + 1] = BS
         THEN IF k + 1 < Len(s) THEN str_body_end(s, k + 2, q) ELSE -1
         ELSE str_body_end(s, k + 1, q)

\* str_re: '...' or "..."
match_str_re(s, i) ==
    IF i < Len(s) /\ s[i + 1] \in {SQ, DQ} THEN str_body_end(s, i + 1, s[i + 1]) ELSE -1

\* float_re = (?<!\.)\d+\.\d+
match_float_re(s, i) ==
    LET a == RunEnd(s, i, Digits)
        b == RunEnd(s, a + 1, Digits)
    IN  IF /\ (i = 0 \/ s[i] # ".")
           /\ a > i
           /\ a < Len(s)
           /\ s[a + 1] = "."
           /\ b > a + 1
        THEN b ELSE -1

\* int_re written as \d: one digit only
match_int_re_OneDigit(s, i) == IF i < Len(s) /\ s[i + 1] \in Digits THEN i + 1 ELSE -1

\* int_re = \d+
match_int_re(s, i) == IF RunEnd(s, i, Digits) > i THEN RunEnd(s, i, Digits) ELSE -1

\* sym_re = [()=,]
match_sym_re(s, i) == IF i < Len(s) /\ s[i + 1] \in SymChars THEN i + 1 ELSE -1

\* space_re = \s+
match_space_re(s, i) ==
    IF RunEnd(s, i, Whitespace) > i THEN RunEnd(s, i, Whitespace) ELSE -1

\* the end offset of rule number n of the scanner's lexicon at offset i
rule_end(n, s, i) ==
    CASE n = 1 -> match_name_re(s, i)
      [] n = 2 -> match_str_re(s, i)
      [] n = 3 -> match_float_re(s, i)
      [] n = 4 -> match_int_re(s, i)
      [] n = 5 -> match_sym_re(s, i)
      [] n = 6 -> match_space_re(s, i)

\* the rules of the lexicon that match at offset i
matching_rules(s, i) == {n \in 1..6 : rule_end(n, s, i) > i}

\* the first of the matching rules in the order of the lexicon (rule 0: none matches)
first_rule(hits) == IF hits = {} THEN 0 ELSE CHOOSE n \in hits : \A m \in hits : n <= m

\* the match object of a rule at offset i
match_of(rule, s, i) ==
    [rule |-> rule, end |-> IF rule = 0 THEN i ELSE rule_end(rule, s, i)]

\* the scanner's match at offset i: the first rule of the lexicon, in its order, that
\* matches
scanner_match(s, i) == match_of(first_rule(matching_rules(s, i)), s, i)

\* whether the rule's action is callable (space_re has the action None)
rule_has_action(n) == n # 6

\* the token the rule's create_token(...) action builds from the matched text; span is
\* scanner.match.span()
generate(n, text, span) ==
    CASE n = 1 -> Token(text, T_ID, PyStr(text), span)
      [] n = 2 -> Token(text, T_STR, PyStr(unquote(text)), span)
      [] n = 3 -> Token(text, T_NUM, PyFloatParse(text).v, span)
      [] n = 4 -> Token(text, T_NUM, PyIntParse(text, 10).v, span)
      [] n = 5 -> Token(text, T_SYM, PyStr(text), span)

\* Scanner.scan from offset i on: <<tokens, offset where the scan stopped>>
RECURSIVE scan(_, _, _)
RECURSIVE scan_matched(_, _, _, _)
scan(s, i, result) == scan_matched(s, i, result, scanner_match(s, i))

\* one pass of the scan loop, m being the match at offset i
scan_matched(s, i, result, m) ==
    IF m.rule = 0 THEN <<result, i>>
    ELSE IF rule_has_action(m.rule)
         THEN scan(s, m.end,
                   Append(result,
                          generate(m.rule, SubSeq(s, i + 1, m.end), <<i, m.end>>)))
         ELSE scan(s, m.end, result)

\* the outcome of tokenize once the scan stopped at `offset` with `tokens`
tokenize_result(s, tokens, offset) ==
    IF offset < Len(s)
    THEN Raise("CheckParseError", "Unexpected character at offset", PyInt(offset))
    ELSE Ok(tokens)

\* CheckParser.tokenize, from the scanner's <<tokens, offset>> on
tokenize_scanned(s, scanned) == tokenize_result(s, scanned[1], scanned[2])

\* CheckParser.tokenize
tokenize(s) == tokenize_scanned(s, scan(s, 0, <<>>))

(***************************************************************************)
(* checks.py: Lexer and CheckParser.  The lexer is the token list and the  *)
(* index lex of the token that next() returns next; an outcome carries the *)
(* lexer's index after the call.                                           *)
(***************************************************************************)
POk(v, lex) == [k |-> "ok", v |-> v, lex |-> lex, exc |-> "", msg |-> ""]

PRaise(exc, msg) == [k |-> "raise", v |-> PyNone, lex |-> 0, exc |-> exc, msg |-> msg]

\* Lexer.next at the end of the input
EndOfInput == PRaise("CheckParseError", "Reached end-of-input when reading token")

RECURSIVE parse_argument_list(_, _, _, _)
RECURSIVE argument_parsed(_, _, _, _)
RECURSIVE keyword_parsed(_, _, _, _, _)
RECURSIVE argument_list_next(_, _, _, _, _)
RECURSIVE parse_expression(_, _, _)
RECURSIVE parse_list_expr(_, _)

\* CheckParser._parse_argument_list: one pass of the `for token in lexer` loop with
\* the args and kwargs gathered so far, up to the first _parse_expression
parse_argument_list(tokens, lex, args, kwargs) ==
    IF lex > Len(tokens) THEN EndOfInput
    ELSE IF tokens[lex].text = <<")">> THEN POk(<<args, kwargs>>, lex + 1)
    ELSE IF tokens[lex].token_id \notin {T_ID, T_STR, T_NUM}
    THEN PRaise("CheckParseError", "Unexpected token")
    ELSE argument_parsed(tokens, parse_expression(tokens, lex + 1, tokens[lex]),
                         args, kwargs)

\* the pass from lexer.expect(T_SYM) on, arg being the outcome of the first
\* _parse_expression
argument_parsed(tokens, arg, args, kwargs) ==
    IF ~IsOk(arg) THEN arg
    ELSE IF arg.lex > Len(tokens) THEN EndOfInput
    ELSE IF tokens[arg.lex].token_id # T_SYM
    THEN PRaise("CheckParseError", "Expected one of")
    ELSE IF tokens[arg.lex].text = <<"=">>
    THEN IF arg.lex + 1 > Len(tokens) THEN EndOfInput
         ELSE keyword_parsed(tokens, arg,
                             parse_expression(tokens, arg.lex + 2, tokens[arg.lex + 1]),
                             args, kwargs)
    ELSE argument_list_next(tokens, tokens[arg.lex], arg.lex + 1,
                            Append(args, arg.v), kwargs)

\* the pass from `kwargs[arg] = value` on, val being the outcome of the second
\* _parse_expression
keyword_parsed(tokens, arg, val, args, kwargs) ==
    IF ~IsOk(val) THEN val
    ELSE IF arg.v.t = "list" THEN PRaise("TypeError", "unhashable type: 'list'")
    ELSE IF val.lex > Len(tokens) THEN EndOfInput
    ELSE argument_list_next(tokens, tokens[val.lex], val.lex + 1,
                            args, DictSet(kwargs, arg.v, val.v))

\* the end of one pass of the loop: `if token.text != ','` leaves the loop, and the
\* list must then have ended with ')'
argument_list_next(tokens, token, lex, args, kwargs) ==
    IF token.text # <<",">>
    THEN IF token.text # <<")">>
         THEN PRaise("CheckParseError", "Expected check expression to end with ')'")
         ELSE POk(<<args, kwargs>>, lex)
    ELSE parse_argument_list(tokens, lex, args, kwargs)

\* CheckParser._parse_expression
parse_expression(tokens, lex, token) ==
    IF token.token_id \in {T_STR, T_NUM} THEN POk(token.value, lex)
    ELSE IF token.token_id = T_ID /\ token.text # S_list
    THEN POk(IF token.text = S_None THEN PyNone ELSE token.value, lex)
    ELSE parse_list_expr(tokens, lex)

\* CheckParser._parse_list_expr, from the outcome r of its _parse_argument_list on
list_parsed(r) ==
    IF ~IsOk(r) THEN r
    ELSE IF Len(r.v[2]) > 0
    THEN PRaise("CheckError", "list expressions may not contain keyword arguments")
    ELSE POk(PyList(r.v[1]), r.lex)

\* CheckParser._parse_list_expr
parse_list_expr(tokens, lex) ==
    IF lex > Len(tokens) THEN EndOfInput
    ELSE IF tokens[lex].text # <<"(">>
    THEN PRaise("CheckParseError", "Expected '(' but got")
    ELSE list_parsed(parse_argument_list(tokens, lex + 1, <<>>, <<>>))

ParsedCheck(name, args, kwargs) == [name |-> name, args |-> args, kwargs |-> kwargs]

\* CheckParser.parse: the returned triple, r being the outcome of _parse_argument_list
check_parsed(method, r) ==
    IF ~IsOk(r) THEN r ELSE POk(ParsedCheck(method.value, r.v[1], r.v[2]), r.lex)

\* CheckParser.parse, from the token list on
parse_tokens(tokens) ==
    IF Len(tokens) = 0 THEN EndOfInput
    ELSE IF tokens[1].token_id # T_ID
    THEN PRaise("CheckParseError", "Expected identifier as first token")
    ELSE IF Len(tokens) < 2 THEN POk(ParsedCheck(tokens[1].value, <<>>, <<>>), 2)
    ELSE IF tokens[2].text # <<"(">>
    THEN PRaise("CheckParseError", "Expected '(' as token following method name")
    ELSE check_parsed(tokens[1], parse_argument_list(tokens, 3, <<>>, <<>>))

\* CheckParser.parse, from the outcome t of tokenize on
parse_tokenized(t) == IF IsOk(t) THEN parse_tokens(t.v) ELSE PRaise(t.exc, t.msg)

\* CheckParser.parse
CheckParser_parse(s) == parse_tokenized(tokenize(s))

(***************************************************************************)
(* checks.py: Check                                                        *)
(***************************************************************************)
CheckDecl(name, args, kwargs, default, aliasof) ==
    [name |-> name, args |-> args, kwargs |-> kwargs, default |-> default,
     aliasof |-> aliasof]

\* Check.parse, from the outcome r of CheckParser.parse on: default and aliasof are
\* popped out of the kwargs, `absent` being the value of pop for a key not given
Check_new(r, absent) ==
    IF ~IsOk(r) THEN r
    ELSE POk(CheckDecl(r.v.name, r.v.args,
                       DictRemove(DictRemove(r.v.kwargs, PyStr(S_default)),
                                  PyStr(S_aliasof)),
                       DictGetOr(r.v.kwargs, PyStr(S_default), absent),
                       DictGetOr(r.v.kwargs, PyStr(S_aliasof), missing)),
             r.lex)

\* Check.parse with kwargs.pop('default', None): an absent default becomes None
Check_parse_DefaultNone(s) == Check_new(CheckParser_parse(s), PyNone)

\* Check.parse
Check_parse(s) == Check_new(CheckParser_parse(s), missing)

\* Check.is_alias
is_alias(c) == c.aliasof # missing

(***************************************************************************)
(* Parsing one check string.  The lexer pulls tokens on demand, so a check *)
(* string is extended by one more lexeme only while the parser still asks  *)
(* for a token or has returned having read every token: what follows a     *)
(* token the parser left unread is never looked at.                        *)
(***************************************************************************)
\* most tokens in a check string
MaxTokens == 8

Lexemes ==
    {<<"a", "b">>, S_list, S_None, S_default, S_aliasof, <<"1">>,
     <<"(">>, <<")">>, <<"=">>, <<",">>}

InitParse ==
    /\ pc = "input"
    /\ check = <<>>
    /\ decl = NoValidator
    /\ value = PyNone
    /\ res = NoResult
    /\ res2 = NoResult
    /\ pos = 0
    /\ toks = <<>>
    /\ scanMatch = <<-1, -1>>
    /\ run = 0
    /\ NoSchemaRun

\* a check string is written further while the parser, t being its tokens and parsed
\* the outcome of the parse, has read every token
Unfinished(t, parsed) ==
    /\ Len(t.v) < MaxTokens
    /\ \/ parsed = EndOfInput
       \/ /\ IsOk(parsed)
          /\ parsed.lex > Len(t.v)

\* the author writes one more lexeme of the check string
Feed ==
    /\ pc = "input"
    /\ Unfinished(tokenize(check), CheckParser_parse(check))
    /\ \E lexeme \in Lexemes :
            check' = IF Len(check) = 0 THEN lexeme ELSE check \o <<" ">> \o lexeme
    /\ UNCHANGED <<pc, decl, value, res, res2, pos, toks, scanMatch, run>>
    /\ UNCHANGED schemaVars

\* CheckParser.parse(check)
ParseCheck ==
    /\ pc = "input"
    /\ res' = CheckParser_parse(check)
    /\ pc' = "parsed"
    /\ UNCHANGED <<decl, value, res2, check, pos, toks, scanMatch, run>>
    /\ UNCHANGED schemaVars

\* Check.parse(check)
DeclareCheck ==
    /\ pc = "parsed"
    /\ res2' = Check_parse(check)
    /\ pc' = "declared"
    /\ UNCHANGED <<decl, value, res, check, pos, toks, scanMatch, run>>
    /\ UNCHANGED schemaVars

NextParse == Feed \/ ParseCheck \/ DeclareCheck

SpecParse == InitParse /\ [][NextParse]_vars

(***************************************************************************)
(* Tokenizing one check string twice with the scanner of the class:        *)
(* Scanner.scan step by step.  scanner.match is kept by the scanner object *)
(* from one call to the next.                                              *)
(***************************************************************************)
\* longest check string drawn from TokAlphabet
MaxCheckLen == 4

TokAlphabet == {"a", "1", "_", "(", ",", " ", ".", "'"}

\* integer(min=1, max=10, default=5)
ExampleCheck ==
    <<"i", "n", "t", "e", "g", "e", "r", "(", "m", "i", "n", "=", "1", ",", " ",
      "m", "a", "x", "=", "1", "0", ",", " ", "d", "e", "f", "a", "u", "l", "t",
      "=", "5", ")">>

TokInputs == StringsUpTo(TokAlphabet, MaxCheckLen) \cup {ExampleCheck}

InitTok ==
    /\ pc = "scan"
    /\ check \in TokInputs
    /\ pos = 0
    /\ toks = <<>>
    /\ scanMatch = <<-1, -1>>
    /\ run = 1
    /\ NoSchemaRun
    /\ decl = NoValidator
    /\ value = PyNone
    /\ res = NoResult
    /\ res2 = NoResult

\* one pass of the scan loop on a rule with a callable action: the match is stored in
\* scanner.match and the action builds the token from it
ScanToken ==
    /\ pc = "scan"
    /\ scanner_match(check, pos).rule # 0
    /\ rule_has_action(scanner_match(check, pos).rule)
    /\ scanMatch' = <<pos, scanner_match(check, pos).end>>
    /\ toks' = Append(toks, generate(scanner_match(check, pos).rule,
                                     SubSeq(check, pos + 1,
                                            scanner_match(check, pos).end),
                                     scanMatch'))
    /\ pos' = scanner_match(check, pos).end
    /\ UNCHANGED <<pc, decl, value, res, res2, check, run>>
    /\ UNCHANGED schemaVars

\* one pass of the scan loop on a rule whose action is None
ScanSkip ==
    /\ pc = "scan"
    /\ scanner_match(check, pos).rule # 0
    /\ ~rule_has_action(scanner_match(check, pos).rule)
    /\ pos' = scanner_match(check, pos).end
    /\ UNCHANGED <<pc, decl, value, res, res2, check, toks, scanMatch, run>>
    /\ UNCHANGED schemaVars

\* no rule matches: the first call of tokenize ends and the second begins
EndFirstScan ==
    /\ pc = "scan"
    /\ run = 1
    /\ scanner_match(check, pos).rule = 0
    /\ res' = tokenize_result(check, toks, pos)
    /\ run' = 2
    /\ pos' = 0
    /\ toks' = <<>>
    /\ UNCHANGED <<pc, decl, value, res2, check, scanMatch>>
    /\ UNCHANGED schemaVars

\* no rule matches: the second call of tokenize ends
EndSecondScan ==
    /\ pc = "scan"
    /\ run = 2
    /\ scanner_match(check, pos).rule = 0
    /\ res2' = tokenize_result(check, toks, pos)
    /\ pc' = "scanned"
    /\ UNCHANGED <<decl, value, res, check, pos, toks, scanMatch, run>>
    /\ UNCHANGED schemaVars

NextTok == ScanToken \/ ScanSkip \/ EndFirstScan \/ EndSecondScan

SpecTok == InitTok /\ [][NextTok]_vars

(***************************************************************************)
(* The schema tree (Configspec).  holland.core.config.configspec is not    *)
(* among the sources; merge follows its description: "for every section /  *)
(* option key in incoming, if absent in base, insert a copy; if present in *)
(* both and both are sections, merge recursively; if present in both and   *)
(* either is a leaf, replace base's entry with incoming's".                *)
(*                                                                         *)
(* A tree maps every key to an entry: absent, an option holding its Check, *)
(* or a section mapping every option name to a Check (NoCheck when the     *)
(* option is not declared).                                                *)
(***************************************************************************)
NoCheck == CheckDecl(PyNone, <<>>, <<>>, missing, missing)

\* what Check.parse makes of `integer(default=d)`
IntegerCheck(d) ==
    CheckDecl(PyStr(<<"i", "n", "t", "e", "g", "e", "r">>), <<>>, <<>>, PyInt(d),
              missing)

\* what Check.parse makes of `string`
StringCheck ==
    CheckDecl(PyStr(<<"s", "t", "r", "i", "n", "g">>), <<>>, <<>>, missing, missing)

AbsentEntry(optionNames) ==
    [kind |-> "absent", check |-> NoCheck, opts |-> [o \in optionNames |-> NoCheck]]

OptionEntry(c, optionNames) ==
    [kind |-> "option", check |-> c, opts |-> [o \in optionNames |-> NoCheck]]

SectionEntry(opts) == [kind |-> "section", check |-> NoCheck, opts |-> opts]

\* the options of a section: base declares them all
merge_options_BaseWins(base, incoming) ==
    [o \in DOMAIN base |-> IF base[o] = NoCheck THEN incoming[o] ELSE base[o]]

\* the options of two sections merged: every option incoming declares is taken
\* from incoming, the others stay as base has them
merge_options(base, incoming) ==
    [o \in DOMAIN base |-> IF incoming[o] = NoCheck THEN base[o] ELSE incoming[o]]

\* one key of merge(base, incoming)
merge_entry(base, incoming) ==
    IF incoming.kind = "absent" THEN base
    ELSE IF base.kind = "absent" THEN incoming
    ELSE IF base.kind = "section" /\ incoming.kind = "section"
         THEN SectionEntry(merge_options(base.opts, incoming.opts))
         ELSE incoming

\* Configspec.merge
merge(base, incoming) == [k \in DOMAIN base |-> merge_entry(base[k], incoming[k])]

(***************************************************************************)
(* Merging schema fragments into a base schema, one after the other, and   *)
(* the same fragments merged among themselves first                        *)
(***************************************************************************)
\* the largest default a declaration of the fragments carries
MaxDefault == 2

\* the most fragments merged into one base schema
MaxMerges == 2

MergeKeys == {"k"}

MergeOptions == {"x", "y"}

MergeChecks == {IntegerCheck(d) : d \in 1..MaxDefault}

MergeEntries ==
    {AbsentEntry(MergeOptions)}
    \cup {OptionEntry(c, MergeOptions) : c \in MergeChecks}
    \cup {SectionEntry(opts) : opts \in [MergeOptions -> MergeChecks \cup {NoCheck}]}

MergeTrees == [MergeKeys -> MergeEntries]

InitMerge ==
    /\ pc = "merge"
    /\ schema \in MergeTrees
    /\ frags = <<schema>>
    /\ res = NoResult
    /\ res2 = NoResult
    /\ decl = NoValidator
    /\ value = PyNone
    /\ check = <<>>
    /\ pos = 0
    /\ toks = <<>>
    /\ scanMatch = <<-1, -1>>
    /\ run = 0
    /\ config = <<>>
    /\ raw = <<>>
    /\ hooks = <<>>
    /\ names = <<>>
    /\ log = <<>>
    /\ argv = <<>>

\* configspec.merge(fragment): frags keeps the base and every fragment merged so far
MergeFragment ==
    /\ pc = "merge"
    /\ Len(frags) <= MaxMerges
    /\ \E incoming \in MergeTrees :
        /\ schema' = merge(schema, incoming)
        /\ frags' = Append(frags, incoming)
    /\ UNCHANGED <<pc, res, res2, config, raw, hooks, names, log, argv>>
    /\ UNCHANGED checkVars

\* the second fragment merged into the first, and the result into the base
MergeGrouped ==
    /\ pc = "merge"
    /\ Len(frags) = 3
    /\ res' = merge(frags[1], merge(frags[2], frags[3]))
    /\ pc' = "grouped"
    /\ UNCHANGED <<res2, schema, frags, config, raw, hooks, names, log, argv>>
    /\ UNCHANGED checkVars

NextMerge == MergeFragment \/ MergeGrouped

SpecMerge == InitMerge /\ [][NextMerge]_vars

(***************************************************************************)
(* Validation of a loaded configuration against a schema tree.             *)
(* Configspec.validate is described as: "for every section present in the  *)
(* schema, for every option declared in that section, look up the option's *)
(* raw string in the loaded configuration (or, if absent, use the          *)
(* declaration's default if one was declared, else treat as an error) ...  *)
(* invoke validate(raw); on success, write the converted typed value back. *)
(* For every section present in the loaded configuration but absent from   *)
(* the schema: if ignore_unknown_sections is set, skip it untouched;       *)
(* otherwise fail, naming the unrecognized section."  Failures are         *)
(* collected and raised together as one ValidateError.  The schemas here   *)
(* declare no alias.                                                       *)
(*                                                                         *)
(* A configuration maps every section name to a section: absent, or        *)
(* present with a value per option name (`missing` when the option is not  *)
(* set).                                                                   *)
(***************************************************************************)
\* default_validators: the class registered under the name a check carries
validator_class(name) ==
    CASE name = PyStr(<<"b", "o", "o", "l", "e", "a", "n">>) -> "BoolValidator"
      [] name = PyStr(<<"i", "n", "t", "e", "g", "e", "r">>) -> "IntValidator"
      [] name = PyStr(<<"f", "l", "o", "a", "t">>) -> "FloatValidator"
      [] name = PyStr(<<"s", "t", "r", "i", "n", "g">>) -> "StringValidator"
      [] name = PyStr(<<"o", "p", "t", "i", "o", "n">>) -> "OptionValidator"
      [] name = PyStr(S_list) -> "ListValidator"
      [] name = PyStr(<<"f", "o", "r", "c", "e", "_", "l", "i", "s", "t">>) ->
            "ListValidator"
      [] name = PyStr(<<"t", "u", "p", "l", "e">>) -> "TupleValidator"
      [] name = PyStr(<<"c", "m", "d", "l", "i", "n", "e">>) -> "CmdlineValidator"
      [] name = PyStr(<<"l", "o", "g", "_", "l", "e", "v", "e", "l">>) ->
            "LogLevelValidator"
      [] OTHER -> ""

\* the validator built for a declaration
validator_of(c) == Validator(validator_class(c.name), c.args, c.kwargs)

\* one declared option: its value in the configuration, or the declared default
validate_option(c, val) ==
    IF val # missing THEN validate(validator_of(c), val)
    ELSE IF c.default # missing THEN validate(validator_of(c), c.default)
         ELSE Raise("ValidationError", "Option is required", val)

NoSection(optionNames) == [present |-> FALSE, opts |-> [o \in optionNames |-> missing]]

ConfigSection(opts) == [present |-> TRUE, opts |-> opts]

\* the declared options whose validation fails, as <<section, option>>
option_errors(spec, cfg) ==
    {e \in (DOMAIN spec) \X (UNION {DOMAIN spec[k].opts : k \in DOMAIN spec}) :
        /\ spec[e[1]].kind = "section"
        /\ spec[e[1]].opts[e[2]] # NoCheck
        /\ ~IsOk(validate_option(spec[e[1]].opts[e[2]], cfg[e[1]].opts[e[2]]))}

\* the sections of the configuration the schema does not declare
unknown_sections(spec, cfg) ==
    {k \in DOMAIN cfg : cfg[k].present /\ spec[k].kind = "absent"}

\* everything Configspec.validate reports: an unknown section as <<section, "">>
validate_errors(spec, cfg, ignore_unknown_sections) ==
    option_errors(spec, cfg)
    \cup (IF ignore_unknown_sections THEN {}
          ELSE {<<k, "">> : k \in unknown_sections(spec, cfg)})

\* the configuration Configspec.validate leaves: converted values written back
validated_config(spec, cfg) ==
    [k \in DOMAIN cfg |->
        IF spec[k].kind # "section" THEN cfg[k]
        ELSE ConfigSection(
                [o \in DOMAIN cfg[k].opts |->
                    IF /\ spec[k].opts[o] # NoCheck
                       /\ IsOk(validate_option(spec[k].opts[o], cfg[k].opts[o]))
                    THEN validate_option(spec[k].opts[o], cfg[k].opts[o]).v
                    ELSE cfg[k].opts[o]])]

(***************************************************************************)
(* backup/util.py: validate_config.  BackupPlugin.configspec and           *)
(* load_plugin are not among the sources: the base schema declares the     *)
(* [holland:backup] options validate_config reads, one backup plugin and   *)
(* one hook plugin can be loaded, and any other name fails to load.        *)
(***************************************************************************)
S_holland_backup ==
    <<"h", "o", "l", "l", "a", "n", "d", ":", "b", "a", "c", "k", "u", "p">>

S_lvm == <<"l", "v", "m">>

S_cmd == <<"c", "m", "d">>

S_h1 == <<"h", "1">>

S_h2 == <<"h", "2">>

S_foo == <<"f", "o", "o">>

ConfigSections == {S_holland_backup, S_lvm, S_h1, S_h2, S_foo}

ConfigOptions == {"plugin", "hooks", "x"}

\* what Check.parse makes of `list(default=list())`
ListCheck == CheckDecl(PyStr(S_list), <<>>, <<>>, PyList(<<>>), missing)

Options(plugin, hooks_, x) ==
    [o \in ConfigOptions |->
        CASE o = "plugin" -> plugin [] o = "hooks" -> hooks_ [] OTHER -> x]

\* BackupPlugin.configspec()
BaseConfigspec ==
    [k \in ConfigSections |->
        IF k = S_holland_backup
        THEN SectionEntry(Options(StringCheck, ListCheck, NoCheck))
        ELSE AbsentEntry(ConfigOptions)]

\* load_plugin('holland.backup', name).configspec(): a section of the plugin's own
backup_plugins == {PyStr(S_lvm)}

backup_configspec ==
    [k \in ConfigSections |->
        IF k = S_lvm
        THEN SectionEntry(Options(NoCheck, NoCheck, IntegerCheck(1)))
        ELSE AbsentEntry(ConfigOptions)]

\* load_plugin('holland.hooks', name).configspec(): the options of the hook
hook_plugins == {PyStr(S_cmd)}

hook_configspec == Options(NoCheck, NoCheck, IntegerCheck(2))

Text(words) == {PyStr(w) : w \in words}

\* the configurations validate_config is run on
Configs ==
    {[k \in ConfigSections |->
        CASE k = S_holland_backup -> ConfigSection(Options(c[1], c[2], missing))
          [] k = S_lvm -> c[3]
          [] k = S_h1 -> c[4]
          [] k = S_h2 -> c[5]
          [] OTHER -> c[6]] :
     c \in ({missing} \cup Text({S_lvm, <<DQ>> \o S_lvm \o <<DQ>>, S_foo}))
           \X ({missing} \cup Text({S_h1, S_h1 \o <<",">> \o S_h2,
                                    S_h2 \o <<",">> \o S_h1, S_foo}))
           \X ({NoSection(ConfigOptions)}
               \cup {ConfigSection(Options(missing, missing, x)) :
                        x \in Text({<<"1">>, <<"a">>})})
           \X ({NoSection(ConfigOptions)}
               \cup {ConfigSection(Options(p, missing, x)) :
                        p \in Text({S_cmd, S_foo}), x \in {missing, PyStr(<<"2">>)}})
           \X {NoSection(ConfigOptions),
               ConfigSection(Options(PyStr(S_cmd), missing, missing))}
           \X {NoSection(ConfigOptions),
               ConfigSection(Options(missing, missing, PyStr(<<"1">>)))}}

InitConfig ==
    /\ pc = "validate_config"
    /\ schema = BaseConfigspec
    /\ config \in Configs
    /\ raw = config
    /\ hooks = <<>>
    /\ names = <<>>
    /\ log = <<>>
    /\ frags = <<>>
    /\ argv = <<>>
    /\ res = NoResult
    /\ res2 = NoResult
    /\ decl = NoValidator
    /\ value = PyNone
    /\ check = <<>>
    /\ pos = 0
    /\ toks = <<>>
    /\ scanMatch = <<-1, -1>>
    /\ run = 0

\* one step of validate_config as the log keeps it: section is where a fragment
\* is merged (<<>> for the root) and plugin the name handed to load_plugin
Step(step, ignore_unknown, section, plugin, ok) ==
    [step |-> step, ignore_unknown |-> ignore_unknown, section |-> section,
     plugin |-> plugin, ok |-> ok]

\* a step raises: the exception leaves validate_config
StepFails(step, section, plugin, exc) ==
    /\ log' = Append(log, Step(step, FALSE, section, plugin, FALSE))
    /\ res' = Raise(exc, "", PyNone)
    /\ pc' = "raised"

\* configspec.validate(config, ignore_unknown_sections), leading on to next
ValidateStep(ignore_unknown_sections, errors, next) ==
    /\ config' = validated_config(schema, config)
    /\ log' = Append(log, Step("validate", ignore_unknown_sections, <<>>, PyNone,
                              errors = {}))
    /\ res' = IF errors = {} THEN Ok(PyNone) ELSE Raise("ValidateError", errors, PyNone)
    /\ pc' = IF errors = {} THEN next ELSE "raised"

\* configspec.validate(config): the first validation made strict
ValidateLenient_Strict ==
    /\ pc = "validate_config"
    /\ ValidateStep(FALSE, validate_errors(schema, config, FALSE), "plugin")
    /\ UNCHANGED <<res2, schema, frags, raw, hooks, names, argv>>
    /\ UNCHANGED checkVars

\* configspec.validate(config, ignore_unknown_sections=True)
ValidateLenient ==
    /\ pc = "validate_config"
    /\ ValidateStep(TRUE, validate_errors(schema, config, TRUE), "plugin")
    /\ UNCHANGED <<res2, schema, frags, raw, hooks, names, argv>>
    /\ UNCHANGED checkVars

\* the backup plugin named by the validated configuration is loaded and its
\* configspec merged; the loop over the hooks then starts
MergePlugin ==
    /\ pc = "plugin"
    /\ IF config[S_holland_backup].opts["plugin"] = missing
       THEN StepFails("merge", <<>>, PyNone, "KeyError") /\ UNCHANGED <<schema, hooks>>
       ELSE IF config[S_holland_backup].opts["plugin"] \notin backup_plugins
       THEN StepFails("merge", <<>>, config[S_holland_backup].opts["plugin"],
                      "PluginError") /\ UNCHANGED <<schema, hooks>>
       ELSE /\ schema' = merge(schema, backup_configspec)
            /\ hooks' = config[S_holland_backup].opts["hooks"].items
            /\ log' = Append(log, Step("merge", FALSE, <<>>,
                                        config[S_holland_backup].opts["plugin"], TRUE))
            /\ pc' = "hooks"
            /\ UNCHANGED res
    /\ UNCHANGED <<res2, frags, config, raw, names, argv>>
    /\ UNCHANGED checkVars

\* config[hook]
config_section(cfg, hook) ==
    IF hook \in DOMAIN cfg THEN cfg[hook] ELSE NoSection(ConfigOptions)

\* section = configspec.setdefault(hook, Configspec()); section['plugin'] = 'string';
\* section.merge(plugin.configspec())
hook_section(entry, fragment) ==
    SectionEntry(merge_options([entry.opts EXCEPT !["plugin"] = StringCheck], fragment))

\* one round of the loop over the hooks
MergeHook ==
    /\ pc = "hooks"
    /\ hooks # <<>>
    /\ LET hook == Head(hooks).s
           section == config_section(config, hook)
       IN  IF ~section.present \/ section.opts["plugin"] = missing
           THEN /\ StepFails("merge", hook, PyNone, "KeyError")
                /\ UNCHANGED <<schema, hooks>>
           ELSE IF section.opts["plugin"] \notin hook_plugins
           THEN /\ StepFails("merge", hook, section.opts["plugin"], "PluginError")
                /\ UNCHANGED <<schema, hooks>>
           ELSE IF schema[hook].kind = "option"
           THEN /\ StepFails("merge", hook, section.opts["plugin"], "TypeError")
                /\ UNCHANGED <<schema, hooks>>
           ELSE /\ schema' = [schema EXCEPT ![hook] = hook_section(@, hook_configspec)]
                /\ hooks' = Tail(hooks)
                /\ log' = Append(log, Step("merge", FALSE, hook,
                                            section.opts["plugin"], TRUE))
                /\ UNCHANGED <<pc, res>>
    /\ UNCHANGED <<res2, frags, config, raw, names, argv>>
    /\ UNCHANGED checkVars

\* the strict validation made while hooks are still to be merged
ValidateStrict_Early ==
    /\ pc = "hooks"
    /\ ValidateStep(FALSE, validate_errors(schema, config, FALSE), "done")
    /\ UNCHANGED <<res2, schema, frags, raw, hooks, names, argv>>
    /\ UNCHANGED checkVars

\* configspec.validate(config), once the loop over the hooks has ended
ValidateStrict ==
    /\ pc = "hooks"
    /\ hooks = <<>>
    /\ ValidateStep(FALSE, validate_errors(schema, config, FALSE), "done")
    /\ UNCHANGED <<res2, schema, frags, raw, hooks, names, argv>>
    /\ UNCHANGED checkVars

NextConfig == ValidateLenient \/ MergePlugin \/ MergeHook \/ ValidateStrict

SpecConfig == InitConfig /\ [][NextConfig]_vars

(***************************************************************************)
(* cli/cmd/builtin/cmd_purge.py: the purge command.  Purge.arguments are   *)
(* argparse declarations (action 'store', taking one value, where none is  *)
(* named); ArgumentParser.parse_args is followed for option strings given  *)
(* in full, with or without an `=value`.                                   *)
(***************************************************************************)
S_opt_all == <<"-", "-", "a", "l", "l">>

S_opt_retention_count ==
    <<"-", "-", "r", "e", "t", "e", "n", "t", "i", "o", "n", "-", "c", "o", "u", "n", "t">>

S_opt_dry_run == <<"-", "-", "d", "r", "y", "-", "r", "u", "n">>

S_opt_n == <<"-", "n">>

S_opt_force == <<"-", "-", "f", "o", "r", "c", "e">>

S_opt_execute == <<"-", "-", "e", "x", "e", "c", "u", "t", "e">>

S_opt_backup_directory ==
    <<"-", "-", "b", "a", "c", "k", "u", "p", "-", "d", "i", "r", "e", "c", "t", "o", "r", "y">>

S_opt_d == <<"-", "d">>

Argument(dest, action, const) == [dest |-> dest, action |-> action, const |-> const]

\* Purge.arguments: the declaration an option string belongs to
arguments(option_string) ==
    CASE option_string = S_opt_all -> Argument("retention_count", "store_const", PyInt(0))
      [] option_string = S_opt_retention_count ->
            Argument("retention_count", "store", PyNone)
      [] option_string \in {S_opt_dry_run, S_opt_n} -> Argument("dry_run", "store", PyNone)
      [] option_string \in {S_opt_force, S_opt_execute} ->
            Argument("dry_run", "store_false", PyBool(FALSE))
      [] option_string \in {S_opt_backup_directory, S_opt_d} ->
            Argument("backup_directory", "store", PyNone)
      [] OTHER -> Argument("", "unknown", PyNone)

\* the defaults of Purge.arguments and of create_parser's set_defaults
Namespace(cfg) ==
    [retention_count |-> PyNone, dry_run |-> PyBool(TRUE),
     backup_directory |-> cfg.backup_directory, backups |-> cfg.backupsets]

\* argparse: a string that starts with "-" and is longer than that is an option
IsOptionString(arg) == Len(arg) > 1 /\ arg[1] = "-"

\* where the first "=" of arg is, 0 when it has none
EqualsAt(arg) ==
    IF \E i \in 1..Len(arg) : arg[i] = "="
    THEN CHOOSE i \in 1..Len(arg) : arg[i] = "=" /\ \A j \in 1..(i - 1) : arg[j] # "="
    ELSE 0

\* argparse _parse_optional: the option string of arg ...
option_string_of(arg) ==
    IF arguments(arg).action # "unknown" \/ EqualsAt(arg) = 0 THEN arg
    ELSE SubSeq(arg, 1, EqualsAt(arg) - 1)

\* ... and the value given after "=", None without one
explicit_arg_of(arg) ==
    IF arguments(arg).action # "unknown" \/ EqualsAt(arg) = 0 THEN PyNone
    ELSE PyStr(SubSeq(arg, EqualsAt(arg) + 1, Len(arg)))

\* the last of the run of positional arguments that starts at args[i]
RECURSIVE positionals_end(_, _)
positionals_end(args, i) ==
    IF i < Len(args) /\ ~IsOptionString(args[i + 1])
    THEN positionals_end(args, i + 1)
    ELSE i

\* a value stored under dest: --retention-count has type=int
stored(dest, text) ==
    IF dest = "retention_count" THEN PyIntParse(text, 10) ELSE Ok(PyStr(text))

\* ArgumentParser.parse_args from args[i] on; positionals tells whether `backups`
\* is still to be matched
RECURSIVE parse_args(_, _, _, _)
RECURSIVE take_action(_, _, _, _, _, _)
take_action(args, i, ns, positionals, action, explicit_arg) ==
    CASE action.action = "unknown" ->
            Raise("ArgparseError", "unrecognized arguments", PyStr(args[i]))
      [] action.action \in {"store_const", "store_false"} ->
            IF explicit_arg # PyNone
            THEN Raise("ArgparseError", "ignored explicit argument", explicit_arg)
            ELSE parse_args(args, i + 1, [ns EXCEPT ![action.dest] = action.const],
                            positionals)
      [] explicit_arg # PyNone ->
            IF IsOk(stored(action.dest, explicit_arg.s))
            THEN parse_args(args, i + 1,
                            [ns EXCEPT ![action.dest] =
                                stored(action.dest, explicit_arg.s).v],
                            positionals)
            ELSE Raise("ArgparseError", "invalid int value", explicit_arg)
      [] i < Len(args) /\ ~IsOptionString(args[i + 1]) ->
            IF IsOk(stored(action.dest, args[i + 1]))
            THEN parse_args(args, i + 2,
                            [ns EXCEPT ![action.dest] =
                                stored(action.dest, args[i + 1]).v],
                            positionals)
            ELSE Raise("ArgparseError", "invalid int value", PyStr(args[i + 1]))
      [] OTHER -> Raise("ArgparseError", "expected one argument", PyStr(args[i]))

parse_args(args, i, ns, positionals) ==
    IF i > Len(args) THEN Ok(ns)
    ELSE IF IsOptionString(args[i])
    THEN take_action(args, i, ns, positionals, arguments(option_string_of(args[i])),
                     explicit_arg_of(args[i]))
    ELSE IF ~positionals
    THEN Raise("ArgparseError", "unrecognized arguments", PyStr(args[i]))
    ELSE parse_args(args, positionals_end(args, i) + 1,
                    [ns EXCEPT !.backups = SubSeq(args, i, positionals_end(args, i))],
                    FALSE)

\* Purge._retention_count: the backupset's retention-count, 1 when its configuration
\* cannot be loaded
retention_count_of(cfg) == IF cfg.retention = missing THEN PyInt(1) ELSE cfg.retention

\* a call on the BackupManager, as the log keeps it
Call(call, name, retention_count, dry_run) ==
    [call |-> call, name |-> name, retention_count |-> retention_count,
     dry_run |-> dry_run, message |-> ""]

\* a call of self.stderr, as the log keeps it: the message, and the backupset it
\* is about
Stderr(message, name) ==
    [call |-> "stderr", name |-> name, retention_count |-> PyNone,
     dry_run |-> PyNone, message |-> message]

\* the calls Purge._retention_count makes for a backupset: the warning of its
\* except branch when the configuration cannot be loaded
retention_count_calls(cfg, name) ==
    IF cfg.retention = missing
    THEN <<Stderr("Failed to load backupset config. Defaulting to retention-count = 1",
                  name)>>
    ELSE <<>>

(***************************************************************************)
(* One run of the purge command.  The log keeps the calls made on the      *)
(* BackupManager and every message written with self.stderr; the lines     *)
(* written with self.stdout report what the BackupManager returned and are *)
(* not kept.                                                               *)
(***************************************************************************)
\* the most arguments on a command line
MaxArgs == 3

S_set == <<"s">>

S_backup == <<"s", "/", "1">>

PurgeArgs ==
    {S_opt_all, S_opt_n, S_opt_force, S_opt_execute,
     S_opt_dry_run \o <<"=">>, S_opt_dry_run \o <<"=", "0">>,
     <<>>, S_set, S_backup}

CommandLines == UNION {[1..n -> PurgeArgs] : n \in 0..MaxArgs}

\* self.config: the backup directory and backupsets of [holland], and the
\* retention-count of the backupset configuration (missing: it fails to load)
PurgeConfigs ==
    [backup_directory : {PyStr(<<>>), PyStr(<<"/", "b">>)},
     backupsets : {<<>>, <<S_set>>},
     retention : {missing, PyInt(2)}]

InitPurge ==
    /\ pc = "purge"
    /\ argv \in CommandLines
    /\ config \in PurgeConfigs
    /\ names = <<>>
    /\ log = <<>>
    /\ res = NoResult
    /\ res2 = NoResult
    /\ schema = <<>>
    /\ frags = <<>>
    /\ raw = <<>>
    /\ hooks = <<>>
    /\ decl = NoValidator
    /\ value = PyNone
    /\ check = <<>>
    /\ pos = 0
    /\ toks = <<>>
    /\ scanMatch = <<-1, -1>>
    /\ run = 0

\* parser.parse_args(argv): res holds the namespace, or the ArgparseError
ParseArgs ==
    /\ pc = "purge"
    /\ res' = parse_args(argv, 1, Namespace(config), TRUE)
    /\ pc' = IF IsOk(res') THEN "execute" ELSE "usage"
    /\ UNCHANGED <<res2, schema, frags, config, raw, hooks, names, log, argv>>
    /\ UNCHANGED checkVars

\* Purge.execute up to its loop: without a backup directory it says so and
\* returns 1; in dry-run mode it says so before the loop
Execute ==
    /\ pc = "execute"
    /\ IF ~Truthy(res.v.backup_directory)
       THEN /\ log' = Append(log, Stderr("No backup-directory defined.", <<>>))
            /\ res2' = Ok(PyInt(1))
            /\ pc' = "returned"
            /\ UNCHANGED names
       ELSE /\ names' = res.v.backups
            /\ log' = IF Truthy(res.v.dry_run)
                      THEN Append(log, Stderr(
                            "Running in dry-run mode. Use --force to run a real purge",
                            <<>>))
                      ELSE log
            /\ pc' = "loop"
            /\ UNCHANGED res2
    /\ UNCHANGED <<res, schema, frags, config, raw, hooks, argv>>
    /\ UNCHANGED checkVars

\* one round of the loop: the backup or backupset named is purged, the retention
\* count of a backupset being looked up first when the command line gave none
PurgeNext ==
    /\ pc = "loop"
    /\ names # <<>>
    /\ log' = IF \E i \in 1..Len(Head(names)) : Head(names)[i] = "/"
              THEN Append(log, Call("purge_backup", Head(names), PyNone,
                                    res.v.dry_run))
              ELSE IF res.v.retention_count = PyNone
              THEN Append(log \o retention_count_calls(config, Head(names)),
                          Call("purge_backupset", Head(names),
                               retention_count_of(config), res.v.dry_run))
              ELSE Append(log, Call("purge_backupset", Head(names),
                                    res.v.retention_count, res.v.dry_run))
    /\ names' = Tail(names)
    /\ UNCHANGED <<pc, res, res2, schema, frags, config, raw, hooks, argv>>
    /\ UNCHANGED checkVars

\* return 0 when the loop has ended
Return ==
    /\ pc = "loop"
    /\ names = <<>>
    /\ res2' = Ok(PyInt(0))
    /\ pc' = "returned"
    /\ UNCHANGED <<res, schema, frags, config, raw, hooks, names, log, argv>>
    /\ UNCHANGED checkVars

NextPurge == ParseArgs \/ Execute \/ PurgeNext \/ Return

SpecPurge == InitPurge /\ [][NextPurge]_vars

(***************************************************************************)
(* All runs together                                                       *)
(***************************************************************************)
Init == InitValidate \/ InitParse \/ InitTok \/ InitMerge \/ InitConfig \/ InitPurge

Next == NextValidate \/ NextParse \/ NextTok \/ NextMerge \/ NextConfig \/ NextPurge

Spec == Init /\ [][Next]_vars

(***************************************************************************)
(* Claims                                                                  *)
(***************************************************************************)
\* the declared bound of an integer validator, None when the keyword was not given
DeclaredMin == DictGet(decl.kwargs, PyStr(S_min))

DeclaredMax == DictGet(decl.kwargs, PyStr(S_max))

\* C1: IntValidator.convert accepts an integer v exactly when v lies within every
\* declared bound (min and max inclusive, an absent bound not limiting), returns v
\* then, and rejects every other integer with a ValidationError, whatever the value
\* of the declared bound is.
C1_BoundsEnforced ==
    (pc = "converted" /\ decl.cls = "IntValidator" /\ value.t = "int") =>
        LET within == /\ (DeclaredMin = PyNone \/ value.n >= DeclaredMin.n)
                      /\ (DeclaredMax = PyNone \/ value.n <= DeclaredMax.n)
        IN  /\ IsOk(res) <=> within
            /\ IsOk(res) => res.v = value
            /\ ~IsOk(res) => res.exc = "ValidationError"

\* C2: for every built-in validator and every raw string it accepts, validating the
\* converted value again (the second pass of validate_config) succeeds and returns
\* the same value.
C2_RevalidateSafe ==
    (pc = "revalidated" /\ IsString(value)) => (IsOk(res2) /\ res2.v = res.v)

\* C3: for every integer declaration (any min, max, base) and every value v convert
\* returned, format(v) succeeds and convert(normalize(format(v))) = v.
C3_IntRoundTrip ==
    (pc = "roundtrip" /\ decl.cls = "IntValidator") => (IsOk(res2) /\ res2.v = res.v)

\* C4: for the list and tuple validators and every sequence v convert returned,
\* format(v) succeeds and convert(normalize(format(v))) = v, same elements, same order.
C4_ListRoundTrip ==
    (pc = "roundtrip" /\ decl.cls \in {"ListValidator", "TupleValidator"}) =>
        (IsOk(res2) /\ res2.v = res.v)

\* C5: for the boolean and log_level validators and every value v convert returned
\* (every numeric input log_level passes through included), format(v) succeeds and
\* convert(normalize(format(v))) = v.
C5_BoolLevelRoundTrip ==
    (pc = "roundtrip" /\ decl.cls \in {"BoolValidator", "LogLevelValidator"}) =>
        (IsOk(res2) /\ res2.v = res.v)

\* the tokens of the check string being parsed
CheckTokens == tokenize(check).v

\* C6: within the tokens the parser read, an `=` that is followed by a symbol or by
\* the end of the input never leads to a returned result (parse fails instead).
C6_ValueAfterEquals ==
    (pc = "parsed" /\ IsOk(res)) =>
        \A i \in 1..Len(CheckTokens) :
            (i < res.lex /\ CheckTokens[i].token_id = T_SYM
                /\ CheckTokens[i].text = <<"=">>) =>
            (i < Len(CheckTokens) /\ CheckTokens[i + 1].token_id # T_SYM)

\* C7: parse returns a result only when it has consumed every token of the input and
\* no comma stands directly before a closing parenthesis.
C7_WholeInputMatched ==
    (pc = "parsed" /\ IsOk(res)) =>
        /\ res.lex > Len(CheckTokens)
        /\ \A i \in 1..(Len(CheckTokens) - 1) :
                ~(CheckTokens[i].text = <<",">> /\ CheckTokens[i + 1].text = <<")">>)

\* C8: every rejection by CheckParser.parse is a CheckParseError.
C8_OnlyParseErrors ==
    (pc = "parsed" /\ ~IsOk(res)) => res.exc = "CheckParseError"

\* C9: for every check string that parses, Check.parse yields a declaration whose
\* kwargs hold neither default nor aliasof; default and aliasof are the values the
\* parser returned for those keywords, or `missing` when the keyword was not given
\* (a given None stays None, which is not `missing`); is_alias holds exactly when
\* aliasof was given; name, args and every other keyword are those of the parser.
C9_ReservedKeywords ==
    (pc = "declared" /\ IsOk(res)) =>
        /\ IsOk(res2)
        /\ ~DictHas(res2.v.kwargs, PyStr(S_default))
        /\ ~DictHas(res2.v.kwargs, PyStr(S_aliasof))
        /\ res2.v.default = IF DictHas(res.v.kwargs, PyStr(S_default))
                            THEN DictGet(res.v.kwargs, PyStr(S_default)) ELSE missing
        /\ res2.v.aliasof = IF DictHas(res.v.kwargs, PyStr(S_aliasof))
                            THEN DictGet(res.v.kwargs, PyStr(S_aliasof)) ELSE missing
        /\ is_alias(res2.v) <=> DictHas(res.v.kwargs, PyStr(S_aliasof))
        /\ res2.v.name = res.v.name
        /\ res2.v.args = res.v.args
        /\ \A i \in 1..Len(res.v.kwargs) :
                res.v.kwargs[i][1] \notin {PyStr(S_default), PyStr(S_aliasof)} =>
                    /\ DictHas(res2.v.kwargs, res.v.kwargs[i][1])
                    /\ DictGet(res2.v.kwargs, res.v.kwargs[i][1]) = res.v.kwargs[i][2]
        /\ \A i \in 1..Len(res2.v.kwargs) : DictHas(res.v.kwargs, res2.v.kwargs[i][1])

\* C9 witness: a check that gives default=None and no aliasof has been declared
C9_Witness ==
    /\ pc = "declared"
    /\ IsOk(res2)
    /\ DictHas(res.v.kwargs, PyStr(S_default))
    /\ res2.v.default = PyNone
    /\ res2.v.aliasof = missing
    /\ ~is_alias(res2.v)

\* the kinds and texts of the tokens of ExampleCheck
ExampleTokens ==
    << <<T_ID, <<"i", "n", "t", "e", "g", "e", "r">> >>, <<T_SYM, <<"(">> >>,
       <<T_ID, <<"m", "i", "n">> >>, <<T_SYM, <<"=">> >>, <<T_NUM, <<"1">> >>,
       <<T_SYM, <<",">> >>,
       <<T_ID, <<"m", "a", "x">> >>, <<T_SYM, <<"=">> >>, <<T_NUM, <<"1", "0">> >>,
       <<T_SYM, <<",">> >>,
       <<T_ID, <<"d", "e", "f", "a", "u", "l", "t">> >>, <<T_SYM, <<"=">> >>,
       <<T_NUM, <<"5">> >>, <<T_SYM, <<")">> >> >>

\* the offsets lo+1..hi of the text hold only whitespace
OnlyWhitespace(s, lo, hi) == \A i \in (lo + 1)..hi : s[i] \in Whitespace

\* C10: tokenizing the same string a second time ends the same way as the first
\* (same error, or the same tokens with the same kinds, values and spans); the tokens
\* are in source order, each is the text of its span and none starts with whitespace,
\* and only whitespace lies before, between and after them; the example
\* integer(min=1, max=10, default=5) yields exactly its 14 tokens.
C10_TokenizeDeterministic ==
    pc = "scanned" =>
        /\ res2.k = res.k
        /\ res2.exc = res.exc
        /\ res2.v = res.v
        /\ IsOk(res) =>
            /\ \A i \in 1..Len(res.v) :
                    /\ res.v[i].position[1] < res.v[i].position[2]
                    /\ res.v[i].text
                         = SubSeq(check, res.v[i].position[1] + 1, res.v[i].position[2])
                    /\ res.v[i].text[1] \notin Whitespace
                    /\ OnlyWhitespace(check,
                                      IF i = 1 THEN 0 ELSE res.v[i - 1].position[2],
                                      res.v[i].position[1])
                    /\ i > 1 => res.v[i - 1].position[2] <= res.v[i].position[1]
            /\ OnlyWhitespace(check,
                              IF Len(res.v) = 0 THEN 0
                              ELSE res.v[Len(res.v)].position[2],
                              Len(check))
        /\ check = ExampleCheck =>
            /\ IsOk(res)
            /\ Len(res.v) = Len(ExampleTokens)
            /\ \A i \in 1..Len(ExampleTokens) :
                    /\ res.v[i].token_id = ExampleTokens[i][1]
                    /\ res.v[i].text = ExampleTokens[i][2]
            /\ res.v[5].value = PyInt(1)
            /\ res.v[9].value = PyInt(10)
            /\ res.v[13].value = PyInt(5)

\* C10 witness: the example has been tokenized twice, with a blank skipped
C10_Witness ==
    /\ pc = "scanned"
    /\ check = ExampleCheck
    /\ IsOk(res2)
    /\ Len(res2.v) = 14
    /\ res2.v[7].position = <<15, 18>>

\* C11: every identifier token of a tokenized string has a text that neither begins
\* nor ends with a digit, and a value equal to its text.
C11_IdentifierNoDigitEnds ==
    (pc = "scanned" /\ IsOk(res)) =>
        \A i \in 1..Len(res.v) :
            res.v[i].token_id = T_ID =>
                /\ res.v[i].text[1] \notin Digits
                /\ res.v[i].text[Len(res.v[i].text)] \notin Digits
                /\ res.v[i].value = PyStr(res.v[i].text)

\* a letter or underscore followed by letters, digits or underscores
IsPlainName(s) ==
    /\ Len(s) > 0
    /\ s[1] \in Letters \cup {"_"}
    /\ \A i \in 1..Len(s) : s[i] \in Letters \cup Digits \cup {"_"}

\* C19: a check string that is a plain name (a letter or underscore followed by
\* letters, digits or underscores) is tokenized as exactly one identifier token that
\* spans the whole name.
C19_PlainNameOneIdentifier ==
    (pc = "scanned" /\ IsPlainName(check)) =>
        /\ IsOk(res)
        /\ Len(res.v) = 1
        /\ res.v[1].token_id = T_ID
        /\ res.v[1].text = check
        /\ res.v[1].position = <<0, Len(check)>>

\* text t is the end of text s
EndsWith(s, t) == Len(t) <= Len(s) /\ SubSeq(s, Len(s) - Len(t) + 1, Len(s)) = t

\* C12: for an option declaration and a raw string, validate returns the unquoted
\* string when it is one of the declaration's positional arguments, and otherwise
\* raises a ValidationError whose message ends with the list of all the arguments.
C12_OptionEnumeration ==
    (pc = "validated" /\ decl.cls = "OptionValidator" /\ IsString(value)) =>
        IF InArgs(decl.args, PyStr(unquote(value.s)))
        THEN IsOk(res) /\ res.v = PyStr(unquote(value.s))
        ELSE /\ res.exc = "ValidationError"
             /\ EndsWith(OptionValidator_message(decl.args, res.v),
                         join_args(decl.args))

\* the fields of one row: the text split at the commas that are outside double quotes
\* (inq: whether offset i lies inside a quoted part)
RECURSIVE SplitOutsideQuotes(_, _, _, _)
SplitOutsideQuotes(s, i, inq, field) ==
    IF i > Len(s) THEN <<field>>
    ELSE IF s[i] = "," /\ ~inq
    THEN <<field>> \o SplitOutsideQuotes(s, i + 1, FALSE, <<>>)
    ELSE SplitOutsideQuotes(s, i + 1, IF s[i] = DQ THEN ~inq ELSE inq,
                            Append(field, s[i]))

\* C13: the list validator turns a raw text into as many elements as the text has
\* fields between commas outside double quotes that are not empty once unquoted, never
\* yields an empty string, and turns a,"b,c",d into the elements a / b,c / d.
C13_ListQuoting ==
    (pc = "converted" /\ decl.cls = "ListValidator" /\ IsString(value)) =>
        /\ IsOk(res)
        /\ res.v.t = "list"
        /\ \A i \in 1..Len(res.v.items) : res.v.items[i] # PyStr(<<>>)
        /\ Len(res.v.items) <= Len(SplitOutsideQuotes(value.s, 1, FALSE, <<>>))
        /\ value.s = ListExample =>
                res.v.items = <<PyStr(<<"a">>), PyStr(<<"b", ",", "c">>), PyStr(<<"d">>)>>

\* C14: whenever validate rejects a raw string, it raises a ValidationError that
\* carries the value it rejected (the raw string after normalize, or the integer it
\* stands for when a bound rejects it).
C14_OnlyValidationErrors ==
    (pc = "validated" /\ IsString(value) /\ ~IsOk(res)) =>
        /\ res.exc = "ValidationError"
        /\ \/ res.v = normalize(decl, value)
           \/ decl.cls = "IntValidator" /\ IsInt(res.v)

\* the trees merged so far hold no key that is an option in one and a section in
\* another
NoCollision ==
    \A k \in DOMAIN schema : \A i, j \in 1..Len(frags) :
        ~(frags[i][k].kind = "option" /\ frags[j][k].kind = "section")

\* the fragments (not the base) that declare option o of section k / option k
FragmentsDeclaring(k, o) ==
    {i \in 2..Len(frags) : frags[i][k].kind = "section" /\ frags[i][k].opts[o] # NoCheck}

FragmentsDeclaringOption(k) == {i \in 2..Len(frags) : frags[i][k].kind = "option"}

\* C15: after any sequence of merges without a leaf-versus-section collision, every
\* section and option of the base or of a fragment is still in the schema, an option
\* a fragment declares carries the declaration of the last fragment declaring it,
\* and an option only the base declares keeps its declaration.
C15_MergeKeepsAndOverrides ==
    (pc = "merge" /\ Len(frags) > 1 /\ NoCollision) =>
        \A k \in DOMAIN schema :
            /\ \A i \in 1..Len(frags) :
                /\ frags[i][k].kind # "absent" => schema[k].kind = frags[i][k].kind
                /\ \A o \in DOMAIN frags[i][k].opts :
                    frags[i][k].opts[o] # NoCheck => schema[k].opts[o] # NoCheck
            /\ FragmentsDeclaringOption(k) # {} =>
                schema[k].check = frags[SetMax(FragmentsDeclaringOption(k))][k].check
            /\ FragmentsDeclaringOption(k) = {} => schema[k].check = frags[1][k].check
            /\ \A o \in DOMAIN schema[k].opts :
                /\ FragmentsDeclaring(k, o) # {} =>
                    schema[k].opts[o] = frags[SetMax(FragmentsDeclaring(k, o))][k].opts[o]
                /\ FragmentsDeclaring(k, o) = {} =>
                    schema[k].opts[o] = frags[1][k].opts[o]

\* a base declaring x with default 1 and y, a fragment declaring x with default 2,
\* and a second fragment adding nothing to the section: x carries default 2, y is kept
C15_Witness ==
    /\ pc = "merge"
    /\ Len(frags) = 3
    /\ NoCollision
    /\ frags[1]["k"].kind = "section"
    /\ frags[1]["k"].opts["x"] = IntegerCheck(1)
    /\ frags[1]["k"].opts["y"] = IntegerCheck(1)
    /\ frags[2]["k"].kind = "section"
    /\ frags[2]["k"].opts["x"] = IntegerCheck(2)
    /\ frags[2]["k"].opts["y"] = NoCheck
    /\ frags[3]["k"].kind = "absent"
    /\ schema["k"].opts["x"] = IntegerCheck(2)
    /\ schema["k"].opts["y"] = IntegerCheck(1)

\* C16: merge is associative for all schema trees, also when a key is an option in
\* one tree and a section in another: merging B and then C into A gives the tree
\* that merging into A the result of merging C into B gives.
C16_MergeAssociative == pc = "grouped" => res = schema

\* the sections a configuration holds that a schema does not declare
Undeclared(spec, cfg) == {k \in DOMAIN cfg : cfg[k].present /\ spec[k].kind = "absent"}

\* C17: for a configuration holding a section the schema does not declare, validate
\* with ignore_unknown_sections=false fails with an error naming that section, and
\* validate with ignore_unknown_sections=true succeeds when all declared options
\* are valid and leaves every option of the undeclared section as it was, a raw
\* string.
C17_UnknownSections ==
    /\ Len(log) = 1 =>
        /\ \A k \in Undeclared(BaseConfigspec, raw) :
            /\ config[k] = raw[k]
            /\ \A o \in DOMAIN config[k].opts :
                config[k].opts[o] = missing \/ IsString(config[k].opts[o])
        /\ (Undeclared(BaseConfigspec, raw) # {} /\ option_errors(BaseConfigspec, raw) = {})
            => log[1].ok /\ pc = "plugin"
    /\ (Len(log) > 1 /\ log[Len(log)].step = "validate") =>
        \A k \in Undeclared(schema, raw) :
            /\ ~log[Len(log)].ok
            /\ pc = "raised"
            /\ res.exc = "ValidateError"
            /\ <<k, "">> \in res.msg

\* the lenient validation passed over the undeclared [foo] and left it as loaded,
\* and the strict validation failed naming it
C17_Witness ==
    /\ pc = "raised"
    /\ Len(log) > 1
    /\ log[1].ok
    /\ log[Len(log)].step = "validate"
    /\ raw[S_foo].present
    /\ config[S_foo] = raw[S_foo]
    /\ IsString(config[S_foo].opts["x"])
    /\ <<S_foo, "">> \in res.msg

\* the hooks [holland:backup] lists, in list order
HooksListed == validate_option(ListCheck, raw[S_holland_backup].opts["hooks"]).v.items

\* C18: validate_config first validates leniently, then merges the schema of the
\* backup plugin whose name it reads from the validated configuration, then merges
\* each listed hook's schema under the hook's section in list order, then validates
\* strictly exactly once; no merge follows the strict validation, the strict
\* validation follows every merge, and no step follows a step that failed.
C18_StepOrder ==
    /\ \A i \in 1..Len(log) :
        /\ ~log[i].ok => i = Len(log) /\ pc = "raised"
        /\ i = 1 => log[i].step = "validate" /\ log[i].ignore_unknown
        /\ i = 2 =>
            /\ log[i].step = "merge"
            /\ log[i].section = <<>>
            /\ log[i].plugin = validate_option(StringCheck,
                                               raw[S_holland_backup].opts["plugin"]).v
        /\ (i > 2 /\ log[i].step = "merge") =>
            /\ i - 2 <= Len(HooksListed)
            /\ log[i].section = HooksListed[i - 2].s
        /\ (i > 1 /\ log[i].step = "validate") =>
            /\ ~log[i].ignore_unknown
            /\ i = Len(HooksListed) + 3
            /\ i = Len(log)
            /\ pc \in {"done", "raised"}
    /\ pc = "done" => Len(log) = Len(HooksListed) + 3 /\ log[Len(log)].step = "validate"
    /\ pc = "raised" => Len(log) > 0 /\ ~log[Len(log)].ok
    /\ pc = "hooks" => Len(log) + Len(hooks) = Len(HooksListed) + 2

\* a run over two hooks: the plugin named "lvm" in quotes was loaded by its unquoted
\* name, h2 and h1 were merged in the order listed, and the strict validation ended
\* the run
C18_Witness ==
    /\ pc = "done"
    /\ Len(log) = 5
    /\ raw[S_holland_backup].opts["plugin"] = PyStr(<<DQ>> \o S_lvm \o <<DQ>>)
    /\ log[2].plugin = PyStr(S_lvm)
    /\ log[3].section = S_h2
    /\ log[4].section = S_h1
    /\ log[5].step = "validate"
    /\ schema[S_h1].opts["plugin"] = StringCheck

\* --force or --execute is among the arguments of the command line
ForceGiven == \E i \in 1..Len(argv) : argv[i] \in {S_opt_force, S_opt_execute}

\* C20: the purge command calls purge_backup / purge_backupset with a false dry_run
\* only when --force or --execute was given on the command line; on every other
\* command line all purge calls are dry runs.
C20_DryRunUnlessForced ==
    \A i \in 1..Len(log) :
        (log[i].call \in {"purge_backup", "purge_backupset"} /\ ~Truthy(log[i].dry_run))
            => ForceGiven

====
